---------------------------- MODULE Spec2Model ----------------------------
(***************************************************************************)
(* A model of two parts of bastion:                                        *)
(*                                                                         *)
(*  - the children group of src/bastion/src/children.rs: its run-loop,     *)
(*    handle, stop, kill, reset and launch_elems (specification Spec);     *)
(*  - the pool manager of src/bastion-executor/src/blocking.rs:            *)
(*    schedule, scale_pool, calculate_ema and create_blocking_thread       *)
(*    (specification SpecPool).                                            *)
(*                                                                         *)
(* Broadcast, Child, BastionId and the supervisor that drives a group are  *)
(* not part of the sources at hand; the little of them the group needs is  *)
(* modelled from the written specification and marked so below.            *)
(***************************************************************************)
EXTENDS Integers, Sequences, FiniteSets, TLC

(***************************************************************************)
(* Bounds of the model.                                                    *)
(***************************************************************************)
\* the arguments given to with_redundancy
RedundancyArgs == {0, 1, 2}
\* number of times the supervisor resets (restarts) the group
MaxResets == 1
\* number of envelopes the parent sends to the group
MaxSends == 3

\* the values of BASTION_BLOCKING_THREADS the model tries (2 is the default)
LowWatermarks == {0, 2, 3}
\* the numbers of cores num_cpus::get() may report
CpuCounts == {1, 4}
\* how many calls of schedule() come in one go: half a poll interval's worth
\* (a tick's sample stays 0) or a whole one (the sample is 1)
Bursts == {100, 200}
\* bursts of calls of schedule() in a run
MaxBursts == 2
\* dynamic worker threads the system lets the pool have at one time
MaxDynamic == 1
\* the threads that call schedule() one call at a time
Callers == {1, 2}
\* single calls of schedule() in a run
MaxCalls == 3
\* calls of the functions of Bastion in a run
MaxApiCalls == 3
\* calls of block_until_stopped in a run
MaxBlocks == 2
\* nodes that stop or fault in a run
MaxFaults == 2

\* every BastionId a run of the model can generate
MaxRedundancy == CHOOSE n \in RedundancyArgs : \A m \in RedundancyArgs : m <= n
Ids == 1 .. (MaxRedundancy * (MaxResets + 1))
\* the BastionId of the Broadcast the group is created with
GroupId == 0

VARIABLES
    \* ---- Children (children.rs:71-88) ----
    launched,        \* ids of the launched elements (keys of the map)
    killed,          \* Vec<(BastionId, Option<channel>)>
    redundancy,
    pre_start_msgs,
    started,
    \* ---- position of the group's task ----
    pc,              \* "new", "run", "stop", "kill", "returned", "unreachable"
    handling,        \* the envelope handle() is suspended on
    awaiting,        \* the child handles stop()/kill() is awaiting
    \* ---- the group's Broadcast and its surroundings ----
    bcast_id,        \* the BastionId of the group's Broadcast
    bcast_children,  \* ids registered in the group's Broadcast
    mailbox,         \* envelopes queued on the group's receiver
    child_inbox,     \* per child: what the group sent to it since its launch
    proc,            \* per child: state of its task / RecoverableHandle
    parent_inbox,    \* notifications the group sent to its parent
    nextId,          \* source of BastionId::new()
    resets,          \* resets done by the supervisor
    sent,            \* envelopes sent by the parent
    \* ---- history ----
    recvLog,         \* envelopes (other than Start) taken by this run-loop
    handleLog,       \* envelopes passed to handle() by this run-loop
    everKilled,      \* ids of the children kill() has recorded in killed
    newIds,          \* ids BastionId::new() gave to the last launch_elems
    cohort,          \* ids of the children the last launch_elems launched
    redundancy_arg,  \* the argument of the last with_redundancy: {} or {n}
    chan_of,         \* per child: the channel its Broadcast was built with
    \* ---- blocking pool (blocking.rs:93-153) ----
    FREQUENCY,       \* AtomicU64
    MAX_THREADS,     \* AtomicU64
    POOL_SIZE,       \* Mutex<u64>
    freq_queue,      \* Mutex<VecDeque<u64>>, front first
    LOW_WATERMARK,   \* lazy static read from BASTION_BLOCKING_THREADS
    num_cpus,        \* what num_cpus::get() returns
    \* ---- the pool manager thread ----
    mgr,             \* "sleep", "check", "spawn", "panicked"
    todo,            \* calls of create_blocking_thread left in this tick
    current_frequency, \* scale_pool's local: the arrivals taken
    ema_cmp,         \* scale_pool's curr_ema against prev_ema: "gt", "eq", "lt"
    scale,           \* calls of create_blocking_thread scale_pool decided on
    \* ---- dynamic worker threads ----
    bursts,          \* bursts of calls of schedule() so far
    starting,        \* threads spawned that have not yet counted themselves
    dynamic,         \* threads that have, and have not yet exited
    \* ---- scale_pool's locals, kept for the properties ----
    prev_ema_frequency,
    curr_ema_frequency,
    \* ---- calls of schedule() and the workers' channel ----
    caller,          \* per caller: "idle", "counted", "blocked"
    static_recv,     \* workers of the static pool blocked in recv
    dynamic_recv,    \* dynamic workers blocked in recv_timeout
    \* ---- history ----
    calls,           \* calls of schedule() so far
    taken,           \* sum of the arrival counts the ticks have taken
    delivered,       \* tasks a worker has received
    limit,           \* the limit of the last would-block failure, while
                     \* POOL_SIZE has not fallen below it: {} or {l}
    \* ---- the named mutexes ----
    mgr_held,        \* the mutexes the manager holds between two steps
    most_held,       \* the most mutexes a thread has held at one time
    \* ---- the system behind the Bastion struct (bastion.rs) ----
    sys_open,        \* the receiver of SYSTEM.sender() is alive
    sys_mailbox,     \* messages queued on the system's receiver
    sys_handle,      \* SYSTEM.handle(): "Some" or "None"
    sys_task,        \* the system's task: "running", "stopped", "cancelled"
    api_result,      \* what the last call of a Bastion function returned
    api_calls,       \* calls of Bastion functions so far
    blk,             \* block_until_stopped: "idle", "polling", "returned"
    blocks,          \* calls of block_until_stopped so far
    \* ---- history ----
    sys_log,         \* every message that was queued on the system's receiver
    \* ---- a supervisor and its nodes ----
    strategy,        \* "OneForOne", "OneForAll", "RestForOne"
    order,           \* ids of the supervised nodes, in launch order
    nodes,           \* per node: its id, its state, the resets it went through
    sup_inbox,       \* Stopped{id} / Faulted{id} queued on the supervisor
    sup_pc,          \* "run", "recover"
    recovering,      \* position in order of the node whose Faulted is handled
    targets,         \* ids of the nodes the recovery restarts
    faults           \* nodes that stopped or faulted so far

groupVars == <<launched, killed, redundancy, pre_start_msgs, started, pc,
               handling, awaiting, bcast_id, bcast_children, mailbox,
               child_inbox, proc, parent_inbox, nextId, resets, sent, recvLog,
               handleLog, everKilled, newIds, cohort, redundancy_arg,
               chan_of>>

poolVars == <<FREQUENCY, MAX_THREADS, POOL_SIZE, freq_queue, LOW_WATERMARK,
              num_cpus, mgr, todo, current_frequency, ema_cmp, scale,
              bursts, starting, dynamic, prev_ema_frequency,
              curr_ema_frequency, caller, static_recv, dynamic_recv, calls,
              taken, delivered, limit, mgr_held, most_held>>

sysVars == <<sys_open, sys_mailbox, sys_handle, sys_task, api_result,
             api_calls, blk, blocks, sys_log>>

supVars == <<strategy, order, nodes, sup_inbox, sup_pc, recovering, targets,
             faults>>

otherVars == <<sysVars, supVars>>

vars == <<groupVars, poolVars, sysVars, supVars>>

(***************************************************************************)
(* Envelopes.  Only the message of an envelope matters to the group.       *)
(***************************************************************************)
Env(m, a) == [msg |-> m, arg |-> a]
NoEnv == Env("none", 0)

Last(s) == s[Len(s)]
Front(s) == SubSeq(s, 1, Len(s) - 1)
IsPrefix(s, t) == Len(s) <= Len(t) /\ SubSeq(t, 1, Len(s)) = s
Range(s) == {s[i] : i \in DOMAIN s}
\* the sequences that list every element of S once
Orders(S) == {o \in [1 .. Cardinality(S) -> S] : Range(o) = S}

(***************************************************************************)
(* The group as one value, for the operators that transform it.            *)
(***************************************************************************)
Self ==
    [launched |-> launched, killed |-> killed, redundancy |-> redundancy,
     pre_start_msgs |-> pre_start_msgs, started |-> started, pc |-> pc,
     handling |-> handling, awaiting |-> awaiting, bcast_id |-> bcast_id,
     bcast_children |-> bcast_children, child_inbox |-> child_inbox,
     proc |-> proc, parent_inbox |-> parent_inbox, nextId |-> nextId,
     handleLog |-> handleLog, everKilled |-> everKilled, newIds |-> newIds,
     cohort |-> cohort, redundancy_arg |-> redundancy_arg,
     chan_of |-> chan_of]

Become(s) ==
    /\ launched' = s.launched
    /\ killed' = s.killed
    /\ redundancy' = s.redundancy
    /\ pre_start_msgs' = s.pre_start_msgs
    /\ started' = s.started
    /\ pc' = s.pc
    /\ handling' = s.handling
    /\ awaiting' = s.awaiting
    /\ bcast_id' = s.bcast_id
    /\ bcast_children' = s.bcast_children
    /\ child_inbox' = s.child_inbox
    /\ proc' = s.proc
    /\ parent_inbox' = s.parent_inbox
    /\ nextId' = s.nextId
    /\ handleLog' = s.handleLog
    /\ everKilled' = s.everKilled
    /\ newIds' = s.newIds
    /\ cohort' = s.cohort
    /\ redundancy_arg' = s.redundancy_arg
    /\ chan_of' = s.chan_of

\* Children::id (children.rs:161-163): the id of the group's Broadcast
Children_id(s) == s.bcast_id

(***************************************************************************)
(* Broadcast (modelled from the specification, section 4.3).               *)
(***************************************************************************)
\* Broadcast::send_children: the envelope goes to every registered child
send_children(s, env) ==
    [s EXCEPT !.child_inbox =
        [id \in Ids |-> IF id \in s.bcast_children
                        THEN Append(s.child_inbox[id], env)
                        ELSE s.child_inbox[id]]]

\* Broadcast::register
register(s, id) == [s EXCEPT !.bcast_children = @ \cup {id}]

\* Broadcast::clear_children
clear_children(s) == [s EXCEPT !.bcast_children = {}]

\* Broadcast::stop_children / kill_children
stop_children(s) == send_children(s, Env("Stop", 0))
kill_children(s) == send_children(s, Env("Kill", 0))

\* Broadcast::stopped / faulted: the notification to the parent
bcast_stopped(s) == [s EXCEPT !.parent_inbox = Append(@, "Stopped")]
bcast_faulted(s) == [s EXCEPT !.parent_inbox = Append(@, "Faulted")]

(***************************************************************************)
(* Children::launch_elems (children.rs:541-590).                           *)
(***************************************************************************)
\* launch_elems as it would be if the entry of killed were read, not popped
LaunchOne_peek(s) ==
    LET reuse == s.killed # <<>>
        id    == IF reuse THEN Last(s.killed)[1] ELSE s.nextId
        s1    == IF reuse
                 THEN s
                 ELSE [s EXCEPT !.nextId = @ + 1, !.newIds = @ \cup {id}]
        s2    == register(s1, id)
        chan  == IF reuse /\ Last(s.killed)[2] = "Some" THEN "kept" ELSE "new"
    IN  [s2 EXCEPT !.launched = @ \cup {id},
                   !.cohort = @ \cup {id},
                   !.chan_of = [@ EXCEPT ![id] = chan],
                   !.proc = [@ EXCEPT ![id] = "running"],
                   !.child_inbox = [@ EXCEPT ![id] = <<>>]]

\* launch_elems as it would be if the channel of the entry were dropped
LaunchOne_new_channel(s) ==
    LET reuse == s.killed # <<>>
        id    == IF reuse THEN Last(s.killed)[1] ELSE s.nextId
        s1    == IF reuse
                 THEN [s EXCEPT !.killed = Front(@)]
                 ELSE [s EXCEPT !.nextId = @ + 1, !.newIds = @ \cup {id}]
        s2    == register(s1, id)
    IN  [s2 EXCEPT !.launched = @ \cup {id},
                   !.cohort = @ \cup {id},
                   !.chan_of = [@ EXCEPT ![id] = "new"],
                   !.proc = [@ EXCEPT ![id] = "running"],
                   !.child_inbox = [@ EXCEPT ![id] = <<>>]]

\* one turn of the loop: the child's Broadcast is built from the last entry
\* of killed when there is one, from a new BastionId otherwise
LaunchOne(s) ==
    LET reuse == s.killed # <<>>
        id    == IF reuse THEN Last(s.killed)[1] ELSE s.nextId
        s1    == IF reuse
                 THEN [s EXCEPT !.killed = Front(@)]
                 ELSE [s EXCEPT !.nextId = @ + 1, !.newIds = @ \cup {id}]
        s2    == register(s1, id)
        chan  == IF reuse /\ Last(s.killed)[2] = "Some" THEN "kept" ELSE "new"
    IN  [s2 EXCEPT !.launched = @ \cup {id},
                   !.cohort = @ \cup {id},
                   !.chan_of = [@ EXCEPT ![id] = chan],
                   !.proc = [@ EXCEPT ![id] = "running"],
                   !.child_inbox = [@ EXCEPT ![id] = <<>>]]

RECURSIVE LaunchLoop(_, _)
LaunchLoop(s, n) == IF n = 0 THEN s ELSE LaunchLoop(LaunchOne(s), n - 1)

\* launch_elems as it would be with a loop that is one turn short
launch_elems_short(s) ==
    LaunchLoop([s EXCEPT !.newIds = {}, !.cohort = {}], s.redundancy - 1)

launch_elems(s) ==
    LaunchLoop([s EXCEPT !.newIds = {}, !.cohort = {}], s.redundancy)

(***************************************************************************)
(* Children::stop and Children::kill (children.rs:347-381), each cut at    *)
(* its await: the part before it, and the part that runs once every        *)
(* awaited handle has resolved.                                            *)
(***************************************************************************)
\* stop() as it would be if it also told the parent before the await
stop_begin_notifying(s, ord) ==
    [bcast_stopped(stop_children(s)) EXCEPT
        !.launched = {}, !.awaiting = ord, !.pc = "stop"]

\* stop(), up to the await: Stop to the children, launched drained
stop_begin(s, ord) ==
    [stop_children(s) EXCEPT !.launched = {}, !.awaiting = ord, !.pc = "stop"]

\* a handle is resolved when its task has finished or has been dropped
Resolved(p) == p \in {"finished", "cancelled"}

\* stop() and kill() as they would be without their await
stop_await_skipped(s) == TRUE
kill_await_skipped(s) == TRUE

\* the await of stop() (lines 352-358): every drained handle has resolved
stop_await(s) == \A id \in Range(s.awaiting) : Resolved(s.proc[id])

\* the await of kill() (lines 373-378): every cancelled handle has resolved
kill_await(s) == \A id \in Range(s.awaiting) : Resolved(s.proc[id])

\* kill(), up to the await: Kill to the children, launched drained in the
\* map's order `ord', every handle cancelled
kill_begin(s, ord) ==
    [kill_children(s) EXCEPT
        !.launched = {},
        !.awaiting = ord,
        !.proc = [id \in Ids |-> IF id \in Range(ord) /\ s.proc[id] = "running"
                                  THEN "cancelling" ELSE s.proc[id]],
        !.pc = "kill"]

\* kill() as it would be if killed were not extended
kill_collect_forgetful(s, chan) ==
    [s EXCEPT !.everKilled = @ \cup Range(s.awaiting), !.awaiting = <<>>]

\* kill(), after the await: (id, channel) of every awaited handle is appended
\* to killed, in the order they were pushed; chan[i] is what handle i gave
kill_collect(s, chan) ==
    [s EXCEPT
        !.killed = @ \o [i \in 1 .. Len(s.awaiting) |-> <<s.awaiting[i], chan[i]>>],
        !.everKilled = @ \cup Range(s.awaiting),
        !.awaiting = <<>>]

\* what an awaited handle can give: nothing when the task was cancelled,
\* the channel (or nothing, when the run-loop's poll took it) when it finished
Channels(s) ==
    {c \in [1 .. Len(s.awaiting) -> {"Some", "None"}] :
        \A i \in 1 .. Len(s.awaiting) :
            s.proc[s.awaiting[i]] = "cancelled" => c[i] = "None"}

(***************************************************************************)
(* Children::handle (children.rs:393-472), up to its first await.  The     *)
(* result has pc = "run" when handle returns Ok(()) at once.               *)
(***************************************************************************)
\* handle() as it would be if a child's Stopped or Faulted were acted on
\* whether or not the child is in launched
handle_any_child(s0, env, ord) ==
    LET s == [s0 EXCEPT !.handleLog = Append(@, env), !.handling = env]
    IN  CASE env.msg = "Start"   -> [s EXCEPT !.pc = "unreachable"]
          [] env.msg = "Stop"    -> stop_begin(s, ord)
          [] env.msg = "Kill"    -> kill_begin(s, ord)
          [] env.msg = "Message" -> send_children(s, env)
          [] env.msg = "Stopped" -> stop_begin(s, ord)
          [] env.msg = "Faulted" -> kill_begin(s, ord)

handle(s0, env, ord) ==
    LET s == [s0 EXCEPT !.handleLog = Append(@, env), !.handling = env]
    IN  CASE env.msg = "Start"   -> [s EXCEPT !.pc = "unreachable"]
          [] env.msg = "Stop"    -> stop_begin(s, ord)
          [] env.msg = "Kill"    -> kill_begin(s, ord)
          [] env.msg = "Message" -> send_children(s, env)
          [] env.msg = "Stopped" ->
                IF env.arg \in s.launched THEN stop_begin(s, ord) ELSE s
          [] env.msg = "Faulted" ->
                IF env.arg \in s.launched THEN kill_begin(s, ord) ELSE s

(***************************************************************************)
(* Children::run (children.rs:474-539).                                    *)
(***************************************************************************)
\* the replay loop of lines 507-512: handle() on each buffered envelope in
\* turn; once a handle() is on its way to Err the rest is dropped
RECURSIVE replay(_, _, _)
replay(s, msgs, ord) ==
    IF msgs = <<>> THEN s
    ELSE LET s1 == handle(s, Head(msgs), ord)
         IN  IF s1.pc # "run" THEN s1 ELSE replay(s1, Tail(msgs), ord)

Reverse(q) == [i \in 1 .. Len(q) |-> q[Len(q) + 1 - i]]

\* the Start arm as it would be if the buffer were replayed last-in first-out
start_arm_lifo(s, ord) ==
    LET s1 == [s EXCEPT !.started = TRUE]
        s2 == send_children(s1, Env("Start", 0))
        msgs == s2.pre_start_msgs
        s3 == [s2 EXCEPT !.pre_start_msgs = <<>>]
    IN  replay(s3, Reverse(msgs), ord)

\* the Start arm as it would be if the buffer were replayed before Start is
\* sent to the children
start_arm_replay_first(s, ord) ==
    LET s1 == [s EXCEPT !.started = TRUE]
        msgs == s1.pre_start_msgs
        s2 == replay([s1 EXCEPT !.pre_start_msgs = <<>>], msgs, ord)
    IN  send_children(s2, Env("Start", 0))

\* the Start arm, lines 483-513
start_arm(s, ord) ==
    LET s1 == [s EXCEPT !.started = TRUE]
        s2 == send_children(s1, Env("Start", 0))
        msgs == s2.pre_start_msgs
        s3 == [s2 EXCEPT !.pre_start_msgs = <<>>]
    IN  replay(s3, msgs, ord)

\* the arm as it would be if only user messages were buffered and the rest
\* were handled at once
buffer_arm_messages_only(s, env) ==
    IF env.msg = "Message"
    THEN [s EXCEPT !.pre_start_msgs = Append(@, env)]
    ELSE handle(s, env, CHOOSE o \in Orders(s.launched) : TRUE)

\* the arm of lines 514-521
buffer_arm(s, env) == [s EXCEPT !.pre_start_msgs = Append(@, env)]

Taken(env) == [env |-> env, pre |-> ~started]

\* handle() as it would be if the Faulted arm called stopped()
after_kill_stopped(s) == bcast_stopped(s)

\* what handle() does once kill() is over: stopped() in the Kill arm
\* (line 413), faulted() in the Faulted arm (line 464)
after_kill(s) ==
    IF s.handling.msg = "Faulted" THEN bcast_faulted(s) ELSE bcast_stopped(s)

\* what handle() does once stop() is over: stopped() (lines 404, 451)
after_stop(s) == bcast_stopped(s)

\* the Start arm as it would be with the guard `if !self.started`: the Start
\* of a started group falls through to the arm that calls handle()
RunStart_unstarted_only ==
    /\ UNCHANGED <<poolVars, otherVars>>
    /\ pc = "run" /\ mailbox # <<>> /\ Head(mailbox).msg = "Start"
    /\ \E ord \in Orders(launched) :
          IF started THEN Become(handle(Self, Head(mailbox), ord))
                     ELSE Become(start_arm(Self, ord))
    /\ mailbox' = Tail(mailbox)
    /\ UNCHANGED <<resets, sent, recvLog>>

RunStart ==
    /\ UNCHANGED <<poolVars, otherVars>>
    /\ pc = "run" /\ mailbox # <<>> /\ Head(mailbox).msg = "Start"
    /\ \E ord \in Orders(launched) : Become(start_arm(Self, ord))
    /\ mailbox' = Tail(mailbox)
    /\ UNCHANGED <<resets, sent, recvLog>>

RunBuffer ==
    /\ UNCHANGED <<poolVars, otherVars>>
    /\ pc = "run" /\ mailbox # <<>> /\ Head(mailbox).msg # "Start"
    /\ ~started
    /\ Become(buffer_arm(Self, Head(mailbox)))
    /\ recvLog' = Append(recvLog, Taken(Head(mailbox)))
    /\ mailbox' = Tail(mailbox)
    /\ UNCHANGED <<resets, sent>>

RunHandle ==
    /\ UNCHANGED <<poolVars, otherVars>>
    /\ pc = "run" /\ mailbox # <<>> /\ Head(mailbox).msg # "Start"
    /\ started
    /\ \E ord \in Orders(launched) : Become(handle(Self, Head(mailbox), ord))
    /\ recvLog' = Append(recvLog, Taken(Head(mailbox)))
    /\ mailbox' = Tail(mailbox)
    /\ UNCHANGED <<resets, sent>>

\* stop() resumes once every awaited handle has resolved; handle() then
\* calls stopped() and returns Err, and run returns (lines 403-406, 450-453)
StopDone ==
    /\ UNCHANGED <<poolVars, otherVars>>
    /\ pc = "stop"
    /\ stop_await(Self)
    /\ Become([after_stop([Self EXCEPT !.awaiting = <<>>])
                  EXCEPT !.pc = "returned"])
    /\ UNCHANGED <<mailbox, resets, sent, recvLog>>

\* kill() resumes once every awaited handle has resolved; handle() then
\* calls stopped() (Kill) or faulted() (Faulted) and returns Err
\* (lines 412-415, 463-466)
KillDone ==
    /\ UNCHANGED <<poolVars, otherVars>>
    /\ pc = "kill"
    /\ kill_await(Self)
    /\ \E chan \in Channels(Self) :
          LET s1 == kill_collect(Self, chan)
          IN  Become([after_kill(s1) EXCEPT !.pc = "returned"])
    /\ UNCHANGED <<mailbox, resets, sent, recvLog>>

(***************************************************************************)
(* Children::with_redundancy (children.rs:279-292) and the launch of a     *)
(* configured group (launch_elems, then launch, lines 541-596).            *)
(***************************************************************************)
\* with_redundancy as it would be if it took its argument as it is
with_redundancy_as_given(s, n) == [s EXCEPT !.redundancy = n]

with_redundancy(s, n) ==
    [s EXCEPT !.redundancy = IF n = 0 THEN n + 1 ELSE n]

WithRedundancy ==
    /\ UNCHANGED <<poolVars, otherVars>>
    /\ pc = "new"
    /\ \E n \in RedundancyArgs :
          Become([with_redundancy(Self, n) EXCEPT !.redundancy_arg = {n}])
    /\ UNCHANGED <<mailbox, resets, sent, recvLog>>

Launch ==
    /\ UNCHANGED <<poolVars, otherVars>>
    /\ pc = "new"
    /\ Become([launch_elems(Self) EXCEPT !.pc = "run"])
    /\ UNCHANGED <<mailbox, resets, sent, recvLog>>

(***************************************************************************)
(* Children::reset (children.rs:119-135), called by the supervisor on the  *)
(* group its task returned; the supervisor then launches it again.  No     *)
(* child is launched at that point, so kill() has nothing to await.        *)
(***************************************************************************)
\* reset as it would be if it left started as it is
reset_stays_started(s) ==
    LET s1 == kill_collect(kill_begin(s, <<>>), <<>>)
        s2 == clear_children(s1)
        s3 == [s2 EXCEPT !.pre_start_msgs = <<>>]
    IN  launch_elems(s3)

reset(s) ==
    LET s1 == kill_collect(kill_begin(s, <<>>), <<>>)
        s2 == clear_children(s1)
        s3 == [s2 EXCEPT !.started = FALSE, !.pre_start_msgs = <<>>]
    IN  launch_elems(s3)

Reset ==
    /\ UNCHANGED <<poolVars, otherVars>>
    /\ pc = "returned" /\ launched = {}
    /\ resets < MaxResets
    /\ Become([reset(Self) EXCEPT !.pc = "run", !.handling = NoEnv,
                                  !.handleLog = <<>>])
    /\ recvLog' = <<>>
    /\ resets' = resets + 1
    /\ UNCHANGED <<mailbox, sent>>

(***************************************************************************)
(* The surroundings (modelled from the specification, sections 4.4, 4.6):  *)
(* the parent sends lifecycle and user messages; a started child's future  *)
(* completes and the child tells the group; a child told to stop           *)
(* completes; a cancelled task is dropped by the executor.                 *)
(***************************************************************************)
ParentSend ==
    /\ UNCHANGED <<poolVars, otherVars>>
    /\ sent < MaxSends
    /\ \E m \in {"Start", "Stop", "Kill", "Message"} :
          mailbox' = Append(mailbox, Env(m, IF m = "Message" THEN sent + 1 ELSE 0))
    /\ sent' = sent + 1
    /\ UNCHANGED <<launched, killed, redundancy, pre_start_msgs, started, pc,
                   handling, awaiting, bcast_id, bcast_children, child_inbox,
                   proc, parent_inbox, nextId, resets, recvLog, handleLog,
                   everKilled, newIds, cohort, redundancy_arg,
                   chan_of>>

Told(id, m) == \E i \in DOMAIN child_inbox[id] : child_inbox[id][i].msg = m

ChildExit ==
    /\ UNCHANGED <<poolVars, otherVars>>
    /\ \E id \in Ids, res \in {"Stopped", "Faulted"} :
          /\ proc[id] = "running" /\ Told(id, "Start")
          /\ proc' = [proc EXCEPT ![id] = "finished"]
          /\ mailbox' = Append(mailbox, Env(res, id))
    /\ UNCHANGED <<launched, killed, redundancy, pre_start_msgs, started, pc,
                   handling, awaiting, bcast_id, bcast_children, child_inbox,
                   parent_inbox, nextId, resets, sent, recvLog, handleLog,
                   everKilled, newIds, cohort, redundancy_arg,
                   chan_of>>

ChildStop ==
    /\ UNCHANGED <<poolVars, otherVars>>
    /\ \E id \in Ids :
          /\ proc[id] = "running" /\ Told(id, "Stop")
          /\ proc' = [proc EXCEPT ![id] = "finished"]
    /\ UNCHANGED <<launched, killed, redundancy, pre_start_msgs, started, pc,
                   handling, awaiting, bcast_id, bcast_children, mailbox,
                   child_inbox, parent_inbox, nextId, resets, sent, recvLog,
                   handleLog, everKilled, newIds, cohort, redundancy_arg,
                   chan_of>>

ChildDropped ==
    /\ UNCHANGED <<poolVars, otherVars>>
    /\ \E id \in Ids :
          /\ proc[id] = "cancelling"
          /\ proc' = [proc EXCEPT ![id] = "cancelled"]
    /\ UNCHANGED <<launched, killed, redundancy, pre_start_msgs, started, pc,
                   handling, awaiting, bcast_id, bcast_children, mailbox,
                   child_inbox, parent_inbox, nextId, resets, sent, recvLog,
                   handleLog, everKilled, newIds, cohort, redundancy_arg,
                   chan_of>>

(***************************************************************************)
(* Children::new (children.rs:91-111).                                     *)
(***************************************************************************)
InitGroup ==
    /\ launched = {}
    /\ killed = <<>>
    /\ redundancy = 1
    /\ pre_start_msgs = <<>>
    /\ started = FALSE
    /\ pc = "new"
    /\ handling = NoEnv
    /\ awaiting = <<>>
    /\ bcast_id = GroupId
    /\ bcast_children = {}
    /\ mailbox = <<>>
    /\ child_inbox = [id \in Ids |-> <<>>]
    /\ proc = [id \in Ids |-> "none"]
    /\ parent_inbox = <<>>
    /\ nextId = 1
    /\ resets = 0
    /\ sent = 0
    /\ recvLog = <<>>
    /\ handleLog = <<>>
    /\ everKilled = {}
    /\ newIds = {}
    /\ cohort = {}
    /\ redundancy_arg = {}
    /\ chan_of = [id \in Ids |-> "none"]



(***************************************************************************)
(* The blocking pool (blocking.rs).                                        *)
(***************************************************************************)
DEFAULT_LOW_WATERMARK == 2
MANAGER_POLL_INTERVAL == 200
FREQUENCY_QUEUE_SIZE == 10
INITIAL_MAX_THREADS == 10000

(***************************************************************************)
(* Exact arithmetic for calculate_ema.  EMA_COEFFICIENT is 2 / (N + 1)     *)
(* with N = FREQUENCY_QUEUE_SIZE, so (1 - EMA_COEFFICIENT)^i is            *)
(* (N - 1)^i / (N + 1)^i and the value of calculate_ema is                 *)
(*     2 * ScaledEma(q) / (N + 1)^N                                        *)
(* where ScaledEma(q) is the natural number                                *)
(*     sum over i of q[i] * (N - 1)^i * (N + 1)^(N - 1 - i).               *)
(* These numbers exceed 32 bits; they are kept as four digits in base      *)
(* 10^4, lowest first.  The f64 results of the program order as the exact  *)
(* values do: two windows with different sums differ by at least           *)
(* 2 / 11^10 > 7e-11, the rounding error of a sum of ten terms below 2 is  *)
(* under 1e-14, and two equal windows give bit-identical folds.            *)
(***************************************************************************)
Limbs == 1 .. 4
BigBase == 100 * 100
BigZero == [i \in Limbs |-> 0]

RECURSIVE Carry(_, _, _)
\* digits of x with every digit brought below the base, from digit i on
Carry(x, i, c) ==
    IF i > 4 THEN x
    ELSE LET v == x[i] + c
         IN  Carry([x EXCEPT ![i] = v % BigBase], i + 1, v \div BigBase)

BigAdd(a, b) == Carry([i \in Limbs |-> a[i] + b[i]], 1, 0)
BigMulSmall(a, k) == Carry([i \in Limbs |-> a[i] * k], 1, 0)
BigOfNat(n) == Carry([i \in Limbs |-> IF i = 1 THEN n ELSE 0], 1, 0)

RECURSIVE BigLessFrom(_, _, _)
BigLessFrom(a, b, i) ==
    IF i = 0 THEN FALSE
    ELSE IF a[i] # b[i] THEN a[i] < b[i]
    ELSE BigLessFrom(a, b, i - 1)
BigLess(a, b) == BigLessFrom(a, b, 4)
BigLeq(a, b) == ~BigLess(b, a)

RECURSIVE BigTimes(_, _, _)
\* x * k^n
BigTimes(x, k, n) == IF n = 0 THEN x ELSE BigTimes(BigMulSmall(x, k), k, n - 1)

EmaNum == FREQUENCY_QUEUE_SIZE - 1
EmaDen == FREQUENCY_QUEUE_SIZE + 1
\* (N + 1)^N
EmaUnit == BigTimes(BigOfNat(1), EmaDen, FREQUENCY_QUEUE_SIZE)
\* the weight of the sample at index i of the deque (0 is the front),
\* (1 - EMA_COEFFICIENT).powf(i), scaled by (N + 1)^(N - 1)
Weights ==
    [i \in 0 .. (FREQUENCY_QUEUE_SIZE - 1) |->
        BigTimes(BigTimes(BigOfNat(1), EmaNum, i), EmaDen,
                 FREQUENCY_QUEUE_SIZE - 1 - i)]

RECURSIVE EmaFold(_, _, _, _)
\* the fold of calculate_ema (blocking.rs:178-180) from index i on, for the
\* digit l of the sum: acc + freq * (1 - EMA_COEFFICIENT)^i
EmaFold(q, l, i, acc) ==
    IF i > Len(q) THEN acc
    ELSE EmaFold(q, l, i + 1, acc + q[i] * Weights[i - 1][l])

\* calculate_ema (blocking.rs:177-181), scaled
calculate_ema(q) ==
    CHOOSE ema \in {Carry(sums, 1, 0) :
                       sums \in {[l \in Limbs |-> EmaFold(w, l, 1, 0)] : w \in {q}}} : TRUE

RECURSIVE ScaleFloor(_, _, _)
\* the largest k with k * (N + 1)^N + 2 * w * prev <= 2 * w * curr, that is
\* floor(w * (curr_ema - prev_ema)), for curr_ema > prev_ema
ScaleFloor(prev, curr, k) ==
    LET w == DEFAULT_LOW_WATERMARK
        lhs == BigAdd(BigMulSmall(EmaUnit, k + 1), BigMulSmall(prev, 2 * w))
    IN  IF BigLeq(lhs, BigMulSmall(curr, 2 * w))
        THEN ScaleFloor(prev, curr, k + 1)
        ELSE k

Min(a, b) == IF a < b THEN a ELSE b
Max(a, b) == IF a < b THEN b ELSE a

\* the window update as it would be if the newest sample were the one
\* taken out of a window that is over its size
PushSample_pop_back(q, frequency) ==
    LET q0 == IF Len(q) = 0 THEN <<0>> ELSE q
        q1 == Append(q0, frequency)
    IN  [prev |-> q0,
         next |-> IF Len(q1) = FREQUENCY_QUEUE_SIZE + 1 THEN Front(q1) ELSE q1]

\* scale_pool's window update (blocking.rs:196-210)
PushSample(q, frequency) ==
    LET q0 == IF Len(q) = 0 THEN <<0>> ELSE q
        q1 == Append(q0, frequency)
    IN  [prev |-> q0,
         next |-> IF Len(q1) = FREQUENCY_QUEUE_SIZE + 1 THEN Tail(q1) ELSE q1]

\* scale_pool's decision (blocking.rs:221-243): how many times it calls
\* create_blocking_thread.  |curr - prev| < f64::EPSILON holds exactly when
\* the two scaled sums are equal (see above).
ScaleAmount(prev, curr, current, cpus) ==
    IF BigLess(prev, curr)
    THEN Min(cpus, ScaleFloor(prev, curr, 0) + DEFAULT_LOW_WATERMARK)
    ELSE IF prev = curr /\ current # 0
    THEN DEFAULT_LOW_WATERMARK
    ELSE 0

\* how curr_ema stands to prev_ema
EmaCompare(prev, curr) ==
    IF BigLess(prev, curr) THEN "gt" ELSE IF prev = curr THEN "eq" ELSE "lt"

\* AtomicU64::fetch_add: the new value of the counter
fetch_add(v, n) == v + n

\* AtomicU64::swap as it would be if it were a load: the value stays
swap_load(v, new) == [old |-> v, new |-> v]

\* AtomicU64::swap: the value it returns and the value it leaves
swap(v, new) == [old |-> v, new |-> new]

\* workers blocked in recv on POOL.receiver
Receivers == static_recv + dynamic_recv

\* a worker blocked in recv takes the task handed over
TakeTask ==
    \/ /\ static_recv > 0
       /\ static_recv' = static_recv - 1
       /\ UNCHANGED dynamic_recv
    \/ /\ dynamic_recv > 0
       /\ dynamic_recv' = dynamic_recv - 1
       /\ UNCHANGED static_recv

\* schedule (blocking.rs:310-313): the arrival is counted; n calls at once,
\* whose tasks are handed over and run within the step
Schedule ==
    /\ \E n \in Bursts :
          /\ bursts < MaxBursts
          /\ FREQUENCY' = fetch_add(FREQUENCY, n)
          /\ calls' = calls + n
          /\ bursts' = bursts + 1
    /\ UNCHANGED <<MAX_THREADS, POOL_SIZE, freq_queue, LOW_WATERMARK, num_cpus,
                   mgr, todo, current_frequency, ema_cmp, scale, starting,
                   dynamic, prev_ema_frequency, curr_ema_frequency, taken,
                   limit, caller, delivered, static_recv, dynamic_recv>>
    /\ UNCHANGED <<mgr_held, most_held>>
    /\ UNCHANGED <<groupVars, otherVars>>

\* schedule, line 312: one call counts its arrival
ScheduleCount ==
    /\ \E c \in DOMAIN caller :
          /\ caller[c] = "idle"
          /\ calls < MaxCalls
          /\ FREQUENCY' = fetch_add(FREQUENCY, 1)
          /\ calls' = calls + 1
          /\ caller' = [caller EXCEPT ![c] = "counted"]
    /\ UNCHANGED <<MAX_THREADS, POOL_SIZE, freq_queue, LOW_WATERMARK, num_cpus,
                   mgr, todo, current_frequency, ema_cmp, scale, bursts,
                   starting, dynamic, prev_ema_frequency, curr_ema_frequency,
                   taken, limit, delivered, static_recv, dynamic_recv>>
    /\ UNCHANGED <<mgr_held, most_held>>
    /\ UNCHANGED <<groupVars, otherVars>>

\* schedule as it would be if a failed try_send dropped the task
ScheduleTrySend_dropping ==
    /\ \E c \in DOMAIN caller :
          /\ caller[c] = "counted"
          /\ caller' = [caller EXCEPT ![c] = "idle"]
          /\ IF Receivers > 0
             THEN TakeTask /\ delivered' = delivered + 1
             ELSE UNCHANGED <<delivered, static_recv, dynamic_recv>>
    /\ UNCHANGED <<FREQUENCY, MAX_THREADS, POOL_SIZE, freq_queue,
                   LOW_WATERMARK, num_cpus, mgr, todo, current_frequency,
                   ema_cmp, scale, bursts, starting, dynamic,
                   prev_ema_frequency, curr_ema_frequency, taken, calls,
                   limit>>
    /\ UNCHANGED <<mgr_held, most_held>>
    /\ UNCHANGED <<groupVars, otherVars>>

\* schedule, line 314: try_send on the unbuffered channel succeeds when a
\* worker is blocked in recv; otherwise the call goes on to send
ScheduleTrySend ==
    /\ \E c \in DOMAIN caller :
          /\ caller[c] = "counted"
          /\ IF Receivers > 0
             THEN /\ TakeTask
                  /\ delivered' = delivered + 1
                  /\ caller' = [caller EXCEPT ![c] = "idle"]
             ELSE /\ caller' = [caller EXCEPT ![c] = "blocked"]
                  /\ UNCHANGED <<delivered, static_recv, dynamic_recv>>
    /\ UNCHANGED <<FREQUENCY, MAX_THREADS, POOL_SIZE, freq_queue,
                   LOW_WATERMARK, num_cpus, mgr, todo, current_frequency,
                   ema_cmp, scale, bursts, starting, dynamic,
                   prev_ema_frequency, curr_ema_frequency, taken, calls,
                   limit>>
    /\ UNCHANGED <<mgr_held, most_held>>
    /\ UNCHANGED <<groupVars, otherVars>>

\* schedule, line 317: the blocking send returns when a worker receives
ScheduleSend ==
    /\ \E c \in DOMAIN caller :
          /\ caller[c] = "blocked"
          /\ Receivers > 0
          /\ TakeTask
          /\ delivered' = delivered + 1
          /\ caller' = [caller EXCEPT ![c] = "idle"]
    /\ UNCHANGED <<FREQUENCY, MAX_THREADS, POOL_SIZE, freq_queue,
                   LOW_WATERMARK, num_cpus, mgr, todo, current_frequency,
                   ema_cmp, scale, bursts, starting, dynamic,
                   prev_ema_frequency, curr_ema_frequency, taken, calls,
                   limit>>
    /\ UNCHANGED <<mgr_held, most_held>>
    /\ UNCHANGED <<groupVars, otherVars>>

\* a worker's task.run() returns and the worker is back in recv
\* (blocking.rs:113-115, 279-281)
WorkerDone ==
    /\ \/ /\ static_recv < LOW_WATERMARK
          /\ static_recv' = static_recv + 1
          /\ UNCHANGED dynamic_recv
       \/ /\ dynamic_recv < dynamic
          /\ dynamic_recv' = dynamic_recv + 1
          /\ UNCHANGED static_recv
    /\ UNCHANGED <<FREQUENCY, MAX_THREADS, POOL_SIZE, freq_queue,
                   LOW_WATERMARK, num_cpus, mgr, todo, current_frequency,
                   ema_cmp, scale, bursts, starting, dynamic,
                   prev_ema_frequency, curr_ema_frequency, taken, calls,
                   limit, caller, delivered>>
    /\ UNCHANGED <<mgr_held, most_held>>
    /\ UNCHANGED <<groupVars, otherVars>>

\* scale_pool (blocking.rs:190-244), up to its first call of
\* create_blocking_thread
ScalePool ==
    /\ mgr = "sleep"
    /\ \E sw \in {swap(FREQUENCY, 0)} :
       LET current   == sw.old
           frequency == current \div MANAGER_POLL_INTERVAL
           w         == PushSample(freq_queue, frequency)
       IN  \E prev \in {calculate_ema(w.prev)}, curr \in {calculate_ema(w.next)} :
           \E n \in {ScaleAmount(prev, curr, current, num_cpus)} :
              /\ FREQUENCY' = sw.new
              /\ current_frequency' = current
              /\ taken' = taken + current
              /\ freq_queue' = w.next
              /\ prev_ema_frequency' = prev
              /\ curr_ema_frequency' = curr
              /\ ema_cmp' = EmaCompare(prev, curr)
              /\ scale' = n
              /\ todo' = n
              /\ mgr' = IF n > 0 THEN "check" ELSE "sleep"
              /\ mgr_held' = IF n > 0 THEN {"FREQ_QUEUE"} ELSE {}
              /\ most_held' = Max(most_held, 1)
    /\ UNCHANGED <<MAX_THREADS, POOL_SIZE, LOW_WATERMARK, num_cpus, bursts,
                   starting, dynamic, calls, limit, caller, delivered,
                   static_recv, dynamic_recv>>
    /\ UNCHANGED <<groupVars, otherVars>>

\* where the manager goes after a call of create_blocking_thread
AfterCall == IF todo = 1 THEN "sleep" ELSE "check"

\* create_blocking_thread as it would be if a declined call left MAX_THREADS
CheckLimit_keeps_limit ==
    /\ mgr = "check"
    /\ IF POOL_SIZE >= MAX_THREADS
       THEN /\ todo' = todo - 1
            /\ mgr' = AfterCall
            /\ UNCHANGED MAX_THREADS
       ELSE /\ mgr' = "spawn"
            /\ UNCHANGED <<MAX_THREADS, todo>>
    /\ UNCHANGED <<FREQUENCY, POOL_SIZE, freq_queue, LOW_WATERMARK, num_cpus,
                   current_frequency, ema_cmp, scale, bursts, starting, dynamic,
                   prev_ema_frequency, curr_ema_frequency, taken, calls,
                   limit, caller, delivered, static_recv, dynamic_recv>>
    /\ most_held' = Max(most_held, Cardinality(mgr_held \cup {"POOL_SIZE"}))
    /\ mgr_held' = IF mgr' = "sleep" THEN {} ELSE mgr_held
    /\ UNCHANGED <<groupVars, otherVars>>

\* create_blocking_thread as it would be without its limit check
CheckLimit_unchecked ==
    /\ mgr = "check"
    /\ IF FALSE
       THEN /\ MAX_THREADS' = INITIAL_MAX_THREADS
            /\ todo' = todo - 1
            /\ mgr' = AfterCall
       ELSE /\ mgr' = "spawn"
            /\ UNCHANGED <<MAX_THREADS, todo>>
    /\ UNCHANGED <<FREQUENCY, POOL_SIZE, freq_queue, LOW_WATERMARK, num_cpus,
                   current_frequency, ema_cmp, scale, bursts, starting, dynamic,
                   prev_ema_frequency, curr_ema_frequency, taken, calls,
                   limit, caller, delivered, static_recv, dynamic_recv>>
    /\ most_held' = Max(most_held, Cardinality(mgr_held \cup {"POOL_SIZE"}))
    /\ mgr_held' = IF mgr' = "sleep" THEN {} ELSE mgr_held
    /\ UNCHANGED <<groupVars, otherVars>>

\* the limit check as it would be if the guard of POOL_SIZE were bound to a
\* name that lives until the function returns
CheckLimit_holds_guard ==
    /\ mgr = "check"
    /\ IF POOL_SIZE >= MAX_THREADS
       THEN /\ MAX_THREADS' = INITIAL_MAX_THREADS
            /\ todo' = todo - 1
            /\ mgr' = AfterCall
       ELSE /\ mgr' = "spawn"
            /\ UNCHANGED <<MAX_THREADS, todo>>
    /\ UNCHANGED <<FREQUENCY, POOL_SIZE, freq_queue, LOW_WATERMARK, num_cpus,
                   current_frequency, ema_cmp, scale, bursts, starting, dynamic,
                   prev_ema_frequency, curr_ema_frequency, taken, calls,
                   limit, caller, delivered, static_recv, dynamic_recv>>
    /\ most_held' = Max(most_held, Cardinality(mgr_held \cup {"POOL_SIZE"}))
    /\ mgr_held' = IF mgr' = "sleep" THEN {} ELSE mgr_held \cup {"POOL_SIZE"}
    /\ UNCHANGED <<groupVars, otherVars>>

\* create_blocking_thread, the limit check (blocking.rs:252-258); the guard
\* of POOL_SIZE is a temporary of the statement that reads the count
CheckLimit ==
    /\ mgr = "check"
    /\ IF POOL_SIZE >= MAX_THREADS
       THEN /\ MAX_THREADS' = INITIAL_MAX_THREADS
            /\ todo' = todo - 1
            /\ mgr' = AfterCall
       ELSE /\ mgr' = "spawn"
            /\ UNCHANGED <<MAX_THREADS, todo>>
    /\ UNCHANGED <<FREQUENCY, POOL_SIZE, freq_queue, LOW_WATERMARK, num_cpus,
                   current_frequency, ema_cmp, scale, bursts, starting, dynamic,
                   prev_ema_frequency, curr_ema_frequency, taken, calls,
                   limit, caller, delivered, static_recv, dynamic_recv>>
    /\ most_held' = Max(most_held, Cardinality(mgr_held \cup {"POOL_SIZE"}))
    /\ mgr_held' = IF mgr' = "sleep" THEN {}
                 ELSE (mgr_held \cup {"POOL_SIZE"}) \ {"POOL_SIZE"}
    /\ UNCHANGED <<groupVars, otherVars>>

\* create_blocking_thread, the spawn and its error handler
\* (blocking.rs:270-303)
SpawnThread ==
    /\ mgr = "spawn"
    /\ \/ /\ starting + dynamic < MaxDynamic
          /\ starting' = starting + 1
          /\ mgr' = AfterCall
          /\ UNCHANGED <<MAX_THREADS, limit, most_held>>
       \/ \* ErrorKind::WouldBlock
          IF POOL_SIZE >= 1
          THEN /\ MAX_THREADS' = POOL_SIZE - 1
               /\ most_held' =
                     Max(most_held, Cardinality(mgr_held \cup {"POOL_SIZE"}))
               /\ limit' = {POOL_SIZE - 1}
               /\ mgr' = AfterCall
               /\ UNCHANGED starting
          ELSE /\ mgr' = "panicked"
               /\ most_held' =
                     Max(most_held, Cardinality(mgr_held \cup {"POOL_SIZE"}))
               /\ UNCHANGED <<MAX_THREADS, starting, limit>>
       \/ \* any other error is printed
          /\ mgr' = AfterCall
          /\ UNCHANGED <<MAX_THREADS, starting, limit, most_held>>
    /\ todo' = todo - 1
    /\ UNCHANGED <<FREQUENCY, POOL_SIZE, freq_queue, LOW_WATERMARK, num_cpus,
                   current_frequency, ema_cmp, scale, bursts, dynamic,
                   prev_ema_frequency, curr_ema_frequency, taken, calls,
                   caller, delivered, static_recv, dynamic_recv>>
    /\ mgr_held' = IF mgr' = "check" THEN mgr_held ELSE {}
    /\ UNCHANGED <<groupVars, otherVars>>

\* a dynamic worker as it would begin if it did not count itself
WorkerStart_no_count ==
    /\ starting > 0
    /\ starting' = starting - 1
    /\ dynamic' = dynamic + 1
    /\ dynamic_recv' = dynamic_recv + 1
    /\ POOL_SIZE' = POOL_SIZE
    /\ UNCHANGED <<FREQUENCY, MAX_THREADS, freq_queue, LOW_WATERMARK, num_cpus,
                   mgr, todo, current_frequency, ema_cmp, scale, bursts,
                   prev_ema_frequency, curr_ema_frequency, taken, calls,
                   limit, caller, delivered, static_recv>>
    /\ most_held' = Max(most_held, 1)
    /\ UNCHANGED mgr_held
    /\ UNCHANGED <<groupVars, otherVars>>

\* a dynamic worker begins (blocking.rs:273-278): it counts itself and
\* goes to recv
WorkerStart ==
    /\ starting > 0
    /\ starting' = starting - 1
    /\ dynamic' = dynamic + 1
    /\ dynamic_recv' = dynamic_recv + 1
    /\ POOL_SIZE' = POOL_SIZE + 1
    /\ UNCHANGED <<FREQUENCY, MAX_THREADS, freq_queue, LOW_WATERMARK, num_cpus,
                   mgr, todo, current_frequency, ema_cmp, scale, bursts,
                   prev_ema_frequency, curr_ema_frequency, taken, calls,
                   limit, caller, delivered, static_recv>>
    /\ most_held' = Max(most_held, 1)
    /\ UNCHANGED mgr_held
    /\ UNCHANGED <<groupVars, otherVars>>

\* a dynamic worker as it would exit if it did not take itself off the count
WorkerExit_no_decrement ==
    /\ dynamic_recv > 0
    /\ dynamic' = dynamic - 1
    /\ dynamic_recv' = dynamic_recv - 1
    /\ POOL_SIZE' = POOL_SIZE
    /\ limit' = {l \in limit : POOL_SIZE - 1 >= l}
    /\ UNCHANGED <<FREQUENCY, MAX_THREADS, freq_queue, LOW_WATERMARK, num_cpus,
                   mgr, todo, current_frequency, ema_cmp, scale, bursts,
                   starting, prev_ema_frequency, curr_ema_frequency, taken,
                   calls, caller, delivered, static_recv>>
    /\ most_held' = Max(most_held, 1)
    /\ UNCHANGED mgr_held
    /\ UNCHANGED <<groupVars, otherVars>>

\* a dynamic worker's recv_timeout times out (blocking.rs:279-282)
WorkerExit ==
    /\ dynamic_recv > 0
    /\ dynamic' = dynamic - 1
    /\ dynamic_recv' = dynamic_recv - 1
    /\ POOL_SIZE' = POOL_SIZE - 1
    /\ limit' = {l \in limit : POOL_SIZE - 1 >= l}
    /\ UNCHANGED <<FREQUENCY, MAX_THREADS, freq_queue, LOW_WATERMARK, num_cpus,
                   mgr, todo, current_frequency, ema_cmp, scale, bursts,
                   starting, prev_ema_frequency, curr_ema_frequency, taken,
                   calls, caller, delivered, static_recv>>
    /\ most_held' = Max(most_held, 1)
    /\ UNCHANGED mgr_held
    /\ UNCHANGED <<groupVars, otherVars>>

\* the spawn of create_blocking_thread (blocking.rs:270-283) when the
\* system grants every thread: a tick spawns at most DEFAULT_LOW_WATERMARK
\* threads for the arrivals of a run of single calls
SpawnSucceeds ==
    /\ mgr = "spawn"
    /\ starting + dynamic < DEFAULT_LOW_WATERMARK * MaxCalls
    /\ starting' = starting + 1
    /\ mgr' = AfterCall
    /\ todo' = todo - 1
    /\ UNCHANGED <<FREQUENCY, MAX_THREADS, POOL_SIZE, freq_queue, LOW_WATERMARK,
                   num_cpus, current_frequency, ema_cmp, scale, bursts, dynamic,
                   prev_ema_frequency, curr_ema_frequency, taken, calls,
                   limit, caller, delivered, static_recv, dynamic_recv,
                   most_held>>
    /\ mgr_held' = IF mgr' = "check" THEN mgr_held ELSE {}
    /\ UNCHANGED <<groupVars, otherVars>>

\* recv_timeout of a dynamic worker times out while no call of schedule is
\* under way: the worker waits a second at least, a call that has counted
\* its arrival is at try_send well before, and a blocked send is received
\* at once (blocking.rs:266-268, 279, 312-317)
IdleWorkerExit ==
    /\ \A c \in DOMAIN caller : caller[c] = "idle"
    /\ WorkerExit

\* the statics and the threads when the pool starts, the callers aside
InitPoolStatics ==
    /\ FREQUENCY = 0
    /\ MAX_THREADS = INITIAL_MAX_THREADS
    /\ POOL_SIZE = LOW_WATERMARK
    /\ freq_queue = <<>>
    /\ mgr = "sleep"
    /\ todo = 0
    /\ current_frequency = 0
    /\ prev_ema_frequency = BigZero
    /\ curr_ema_frequency = BigZero
    /\ ema_cmp = "eq"
    /\ scale = 0
    /\ bursts = 0
    /\ starting = 0
    /\ dynamic = 0
    /\ taken = 0
    /\ calls = 0
    /\ limit = {}
    /\ delivered = 0
    /\ static_recv = LOW_WATERMARK
    /\ dynamic_recv = 0
    /\ mgr_held = {}
    /\ most_held = 0

\* what is the same in every initial state of the pool
InitPoolCommon ==
    /\ InitPoolStatics
    /\ caller = [c \in Callers |-> "idle"]

\* the statics before the pool is first used; LOW_WATERMARK stands for the
\* default here
IdlePool ==
    /\ LOW_WATERMARK = DEFAULT_LOW_WATERMARK
    /\ num_cpus = 1
    /\ InitPoolCommon

\* the statics (blocking.rs:93-96, 144-153, 339-349) when the pool starts
InitPool ==
    /\ LOW_WATERMARK \in LowWatermarks
    /\ num_cpus \in CpuCounts
    /\ InitPoolCommon

(***************************************************************************)
(* The Bastion struct (bastion.rs) and the system behind it.  A message    *)
(* of the system carries what it was built from: the payload of a call is  *)
(* the number of the call, and the lifecycle messages carry nothing (0).   *)
(***************************************************************************)
SysMsg(kind, payload) == [kind |-> kind, payload |-> payload]

\* what the function returned: Ok or Err, and the payload an Err carries
ApiResult(op, ok, payload, carried) ==
    [op |-> op, ok |-> ok, payload |-> payload, carried |-> carried]

\* UnboundedSender::unbounded_send on SYSTEM.sender(): the message is queued
\* while the receiver lives; otherwise the error hands the message back
unbounded_send(msg) ==
    IF sys_open
    THEN [ok |-> TRUE, queue |-> Append(sys_mailbox, msg),
          log |-> Append(sys_log, msg), back |-> {}]
    ELSE [ok |-> FALSE, queue |-> sys_mailbox, log |-> sys_log,
          back |-> {msg.payload}]

\* SupervisorRef::children on SYSTEM.supervisor(): the group is deployed
\* through the system's supervisor, and a failed send gives Err(())
SupervisorRef_children(payload) ==
    LET r == unbounded_send(SysMsg("Deploy", payload))
    IN  [r EXCEPT !.back = {}]

\* Bastion::broadcast (bastion.rs:379-388): map_err takes the message back
\* out of the error
BastionBroadcast ==
    /\ UNCHANGED <<groupVars, poolVars, supVars>>
    /\ api_calls < MaxApiCalls
    /\ LET payload == api_calls + 1
           r == unbounded_send(SysMsg("Broadcast", payload))
       IN  /\ sys_mailbox' = r.queue
           /\ sys_log' = r.log
           /\ api_result' = ApiResult("broadcast", r.ok, payload, r.back)
    /\ api_calls' = api_calls + 1
    /\ UNCHANGED <<sys_open, sys_handle, sys_task, blk, blocks>>

\* Bastion::supervisor (bastion.rs:256-276): map_err(|_| ()) drops the error
\* and the message in it
BastionSupervisor ==
    /\ UNCHANGED <<groupVars, poolVars, supVars>>
    /\ api_calls < MaxApiCalls
    /\ LET payload == api_calls + 1
           r == unbounded_send(SysMsg("Deploy", payload))
       IN  /\ sys_mailbox' = r.queue
           /\ sys_log' = r.log
           /\ api_result' = ApiResult("supervisor", r.ok, payload, {})
    /\ api_calls' = api_calls + 1
    /\ UNCHANGED <<sys_open, sys_handle, sys_task, blk, blocks>>

\* Bastion::children (bastion.rs:326-332): the result of
\* SYSTEM.supervisor().children(init), a Result<ChildrenRef, ()>
BastionChildren ==
    /\ UNCHANGED <<groupVars, poolVars, supVars>>
    /\ api_calls < MaxApiCalls
    /\ LET payload == api_calls + 1
           r == SupervisorRef_children(payload)
       IN  /\ sys_mailbox' = r.queue
           /\ sys_log' = r.log
           /\ api_result' = ApiResult("children", r.ok, payload, r.back)
    /\ api_calls' = api_calls + 1
    /\ UNCHANGED <<sys_open, sys_handle, sys_task, blk, blocks>>

\* Bastion::start (bastion.rs:412-418): the result of the send is dropped
BastionStart ==
    /\ UNCHANGED <<groupVars, poolVars, supVars>>
    /\ api_calls < MaxApiCalls
    /\ LET r == unbounded_send(SysMsg("Start", 0))
       IN  /\ sys_mailbox' = r.queue
           /\ sys_log' = r.log
    /\ api_result' = ApiResult("start", TRUE, 0, {})
    /\ api_calls' = api_calls + 1
    /\ UNCHANGED <<sys_open, sys_handle, sys_task, blk, blocks>>

\* Bastion::stop (bastion.rs:442-448)
BastionStop ==
    /\ UNCHANGED <<groupVars, poolVars, supVars>>
    /\ api_calls < MaxApiCalls
    /\ LET r == unbounded_send(SysMsg("Stop", 0))
       IN  /\ sys_mailbox' = r.queue
           /\ sys_log' = r.log
    /\ api_result' = ApiResult("stop", TRUE, 0, {})
    /\ api_calls' = api_calls + 1
    /\ UNCHANGED <<sys_open, sys_handle, sys_task, blk, blocks>>

\* Bastion::kill as it would be if it cancelled the handle through a
\* reference, without taking it out of SYSTEM.handle()
BastionKill_leaves_handle ==
    /\ UNCHANGED <<groupVars, poolVars, supVars>>
    /\ api_calls < MaxApiCalls
    /\ LET r == unbounded_send(SysMsg("Kill", 0))
       IN  /\ sys_mailbox' = r.queue
           /\ sys_log' = r.log
    /\ sys_task' = IF sys_handle = "Some" /\ sys_task = "running"
                   THEN "cancelled" ELSE sys_task
    /\ api_result' = ApiResult("kill", TRUE, 0, {})
    /\ api_calls' = api_calls + 1
    /\ UNCHANGED <<sys_open, sys_handle, blk, blocks>>

\* Bastion::kill (bastion.rs:471-484): Kill is sent, the result dropped;
\* then the handle is taken out of SYSTEM.handle() and cancelled
BastionKill ==
    /\ UNCHANGED <<groupVars, poolVars, supVars>>
    /\ api_calls < MaxApiCalls
    /\ LET r == unbounded_send(SysMsg("Kill", 0))
       IN  /\ sys_mailbox' = r.queue
           /\ sys_log' = r.log
    /\ sys_handle' = "None"
    /\ sys_task' = IF sys_handle = "Some" /\ sys_task = "running"
                   THEN "cancelled" ELSE sys_task
    /\ api_result' = ApiResult("kill", TRUE, 0, {})
    /\ api_calls' = api_calls + 1
    /\ UNCHANGED <<sys_open, blk, blocks>>

\* Bastion::block_until_stopped (bastion.rs:513-530) is called
BlockBegin ==
    /\ UNCHANGED <<groupVars, poolVars, supVars>>
    /\ blk \in {"idle", "returned"}
    /\ blocks < MaxBlocks
    /\ blk' = "polling"
    /\ blocks' = blocks + 1
    /\ UNCHANGED <<sys_open, sys_mailbox, sys_handle, sys_task, api_result,
                   api_calls, sys_log>>

\* one turn of its loop (bastion.rs:517-525): the handle is locked and read,
\* and the function returns when it is None
BlockPoll ==
    /\ UNCHANGED <<groupVars, poolVars, supVars>>
    /\ blk = "polling"
    /\ blk' = IF sys_handle = "None" THEN "returned" ELSE "polling"
    /\ UNCHANGED <<sys_open, sys_mailbox, sys_handle, sys_task, api_result,
                   api_calls, blocks, sys_log>>

\* the system's task takes a message (modelled from the specification,
\* section 4.7): on Stop or Kill it stops its nodes, clears the handle and
\* returns, which drops its receiver; any other message is passed down
SystemTake ==
    /\ UNCHANGED <<groupVars, poolVars, supVars>>
    /\ sys_task = "running"
    /\ sys_mailbox # <<>>
    /\ sys_mailbox' = Tail(sys_mailbox)
    /\ IF Head(sys_mailbox).kind \in {"Stop", "Kill"}
       THEN /\ sys_task' = "stopped"
            /\ sys_handle' = "None"
            /\ sys_open' = FALSE
       ELSE UNCHANGED <<sys_task, sys_handle, sys_open>>
    /\ UNCHANGED <<api_result, api_calls, blk, blocks, sys_log>>

\* the executor drops the cancelled task, and its receiver with it
SystemDropped ==
    /\ UNCHANGED <<groupVars, poolVars, supVars>>
    /\ sys_task = "cancelled"
    /\ sys_open
    /\ sys_open' = FALSE
    /\ UNCHANGED <<sys_mailbox, sys_handle, sys_task, api_result, api_calls,
                   blk, blocks, sys_log>>

\* the system after Bastion::init(): its task runs and its handle is set
InitSystem ==
    /\ sys_open = TRUE
    /\ sys_mailbox = <<>>
    /\ sys_handle = "Some"
    /\ sys_task = "running"
    /\ api_result = ApiResult("none", TRUE, 0, {})
    /\ api_calls = 0
    /\ blk = "idle"
    /\ blocks = 0
    /\ sys_log = <<>>

(***************************************************************************)
(* A supervisor and the nodes it supervises (modelled from the             *)
(* specification, section 4.5).  A node is a children group: restarting it *)
(* is Children::reset, which leaves the group's Broadcast, and so its id,  *)
(* as it is (children.rs:119-135).                                         *)
(***************************************************************************)
NodeIds == {1, 2, 3}
Strategies == {"OneForOne", "OneForAll", "RestForOne"}

\* the position of id in ord, 0 when it is not there
Position(ord, id) ==
    IF id \in Range(ord) THEN CHOOSE i \in DOMAIN ord : ord[i] = id ELSE 0

Without(ord, id) == SelectSeq(ord, LAMBDA x : x # id)

\* the dispatch as it would be if RestForOne took the nodes up to the
\* faulted one
restart_targets_before(strat, pos, ord) ==
    CASE strat = "OneForOne"  -> {ord[pos]}
      [] strat = "OneForAll"  -> Range(ord)
      [] strat = "RestForOne" -> {ord[i] : i \in 1 .. pos}

\* the dispatch: the nodes a Faulted of the node at pos restarts
restart_targets(strat, pos, ord) ==
    CASE strat = "OneForOne"  -> {ord[pos]}
      [] strat = "OneForAll"  -> Range(ord)
      [] strat = "RestForOne" -> {ord[i] : i \in pos .. Len(ord)}

\* a node is reset and launched again: Children::reset keeps self.bcast
SupReset(node) ==
    [node EXCEPT !.state = "running", !.restarts = @ + 1]

\* a node's run-loop ends on its own and tells the supervisor
NodeStop ==
    /\ UNCHANGED <<groupVars, poolVars, sysVars>>
    /\ faults < MaxFaults
    /\ \E n \in NodeIds :
          /\ nodes[n].state = "running"
          /\ nodes' = [nodes EXCEPT ![n].state = "stopped"]
          /\ sup_inbox' = Append(sup_inbox, [msg |-> "Stopped", id |-> nodes[n].id])
    /\ faults' = faults + 1
    /\ UNCHANGED <<strategy, order, sup_pc, recovering, targets>>

\* a node faults and tells the supervisor
NodeFault ==
    /\ UNCHANGED <<groupVars, poolVars, sysVars>>
    /\ faults < MaxFaults
    /\ \E n \in NodeIds :
          /\ nodes[n].state = "running"
          /\ nodes' = [nodes EXCEPT ![n].state = "faulted"]
          /\ sup_inbox' = Append(sup_inbox, [msg |-> "Faulted", id |-> nodes[n].id])
    /\ faults' = faults + 1
    /\ UNCHANGED <<strategy, order, sup_pc, recovering, targets>>

\* the supervisor takes Stopped{id}: the node is removed and not restarted
SupStopped ==
    /\ UNCHANGED <<groupVars, poolVars, sysVars>>
    /\ sup_pc = "run"
    /\ sup_inbox # <<>>
    /\ Head(sup_inbox).msg = "Stopped"
    /\ sup_inbox' = Tail(sup_inbox)
    /\ order' = Without(order, Head(sup_inbox).id)
    /\ UNCHANGED <<strategy, nodes, sup_pc, recovering, targets, faults>>

\* the supervisor takes Faulted{id}: id is looked up in order, the targets
\* are computed per strategy and each of them is killed
SupFaulted ==
    /\ UNCHANGED <<groupVars, poolVars, sysVars>>
    /\ sup_pc = "run"
    /\ sup_inbox # <<>>
    /\ Head(sup_inbox).msg = "Faulted"
    /\ sup_inbox' = Tail(sup_inbox)
    /\ LET pos == Position(order, Head(sup_inbox).id)
       IN  IF pos = 0
           THEN UNCHANGED <<nodes, sup_pc, recovering, targets>>
           ELSE /\ recovering' = pos
                /\ targets' = restart_targets(strategy, pos, order)
                /\ nodes' = [n \in NodeIds |->
                                IF nodes[n].id \in targets'
                                THEN [nodes[n] EXCEPT !.state = "killed"]
                                ELSE nodes[n]]
                /\ sup_pc' = "recover"
    /\ UNCHANGED <<strategy, order, faults>>

\* the killed targets have ended: each is reset and launched again
SupRecover ==
    /\ UNCHANGED <<groupVars, poolVars, sysVars>>
    /\ sup_pc = "recover"
    /\ nodes' = [n \in NodeIds |->
                    IF nodes[n].id \in targets THEN SupReset(nodes[n])
                                               ELSE nodes[n]]
    /\ sup_pc' = "run"
    /\ recovering' = 0
    /\ targets' = {}
    /\ UNCHANGED <<strategy, order, sup_inbox, faults>>

InitSupervisorCommon ==
    /\ nodes = [n \in NodeIds |-> [id |-> n, state |-> "running", restarts |-> 0]]
    /\ sup_inbox = <<>>
    /\ sup_pc = "run"
    /\ recovering = 0
    /\ targets = {}
    /\ faults = 0

\* a supervisor nothing is asked of
IdleSupervisor ==
    /\ strategy = "OneForOne"
    /\ order = <<>>
    /\ InitSupervisorCommon

\* a started supervisor of three nodes, launched in some order
InitSupervisor ==
    /\ strategy \in Strategies
    /\ order \in Orders(NodeIds)
    /\ InitSupervisorCommon

NextPool ==
    \/ Schedule
    \/ ScalePool
    \/ CheckLimit
    \/ SpawnThread
    \/ WorkerStart
    \/ WorkerExit

\* the pool in use, next to a children group that is created and left alone
InitWithPool == InitGroup /\ InitPool /\ InitSystem /\ IdleSupervisor

\* the pool under bursts of calls of schedule()
SpecPool == InitWithPool /\ [][NextPool]_vars

\* the pool under single calls of schedule(), each followed to its handoff
NextSched ==
    \/ ScheduleCount
    \/ ScheduleTrySend
    \/ ScheduleSend
    \/ WorkerDone
    \/ ScalePool
    \/ CheckLimit
    \/ SpawnThread
    \/ WorkerStart
    \/ WorkerExit

SpecSched == InitWithPool /\ [][NextSched]_vars

\* the same with time passing: the idle limit of a dynamic worker that
\* waits in recv_timeout runs out, and a task that a worker runs ends
FairSched ==
    /\ SpecSched
    /\ WF_vars(WorkerExit)
    /\ WF_vars(WorkerDone)

(***************************************************************************)
(* The pool under calls of schedule() whose tasks never return: a worker   *)
(* that has taken a task is occupied for good, and every spawn succeeds.   *)
(***************************************************************************)
HogCallers == {1, 2, 3}

\* a pool without static workers, or with the default two, on one core
InitHog ==
    /\ InitGroup /\ InitSystem /\ IdleSupervisor
    /\ LOW_WATERMARK \in {0, DEFAULT_LOW_WATERMARK}
    /\ num_cpus = 1
    /\ InitPoolStatics
    /\ caller = [c \in HogCallers |-> "idle"]

NextHog ==
    \/ ScheduleCount
    \/ ScheduleTrySend
    \/ ScheduleSend
    \/ ScalePool
    \/ CheckLimit
    \/ SpawnSucceeds
    \/ WorkerStart
    \/ IdleWorkerExit

SpecHog == InitHog /\ [][NextHog]_vars

\* the same with every thread scheduled fairly: the manager ticks, spawned
\* threads start, and a send that a worker can receive is received
FairHog ==
    /\ SpecHog
    /\ WF_vars(ScalePool)
    /\ WF_vars(CheckLimit)
    /\ WF_vars(SpawnSucceeds)
    /\ WF_vars(WorkerStart)
    /\ WF_vars(ScheduleTrySend)
    /\ WF_vars(ScheduleSend)

(***************************************************************************)
(* The children group on its own: the pool stays as it is before use.      *)
(***************************************************************************)
Init == InitGroup /\ IdlePool /\ InitSystem /\ IdleSupervisor

Next ==
    \/ WithRedundancy
    \/ Launch
    \/ RunStart
    \/ RunBuffer
    \/ RunHandle
    \/ StopDone
    \/ KillDone
    \/ Reset
    \/ ParentSend
    \/ ChildExit
    \/ ChildStop
    \/ ChildDropped

Spec == Init /\ [][Next]_vars

(***************************************************************************)
(* The Bastion struct in use: calls of its functions, a thread that blocks *)
(* until the system is stopped, and the system's task.                     *)
(***************************************************************************)
InitWithSystem == InitGroup /\ IdlePool /\ InitSystem /\ IdleSupervisor

NextSystem ==
    \/ BastionBroadcast
    \/ BastionSupervisor
    \/ BastionChildren
    \/ BastionStart
    \/ BastionStop
    \/ BastionKill
    \/ BlockBegin
    \/ BlockPoll
    \/ SystemTake
    \/ SystemDropped

SpecSystem == InitWithSystem /\ [][NextSystem]_vars

\* the same with the blocked thread running: its loop never yields for good
FairSystem == SpecSystem /\ WF_vars(BlockPoll)

(***************************************************************************)
(* A supervisor of three nodes that stop and fault.                        *)
(***************************************************************************)
InitWithSupervisor == InitGroup /\ IdlePool /\ InitSystem /\ InitSupervisor

NextSupervisor ==
    \/ NodeStop
    \/ NodeFault
    \/ SupStopped
    \/ SupFaulted
    \/ SupRecover

SpecSupervisor == InitWithSupervisor /\ [][NextSupervisor]_vars


(***************************************************************************)
(* Properties of the children group, checked under Spec.                   *)
(***************************************************************************)
EnvsOf(log) == [i \in DOMAIN log |-> log[i].env]
KilledIds == {killed[i][1] : i \in DOMAIN killed}
Settled == \A id \in Ids : proc[id] \in {"none", "finished", "cancelled"}

\* C1: every envelope (other than Start) taken while started is false is
\* appended to pre_start_msgs; once Start is taken the buffered envelopes are
\* handled in the order they were taken, and before any envelope taken later:
\* what handle() has been given is always a prefix of what the run-loop took,
\* and all of it while the run-loop goes on.
C1_ReplayInOrder ==
    /\ (pc = "run" /\ ~started) =>
          /\ pre_start_msgs = EnvsOf(recvLog)
          /\ handleLog = <<>>
    /\ (pc = "run" /\ started) =>
          /\ pre_start_msgs = <<>>
          /\ handleLog = EnvsOf(recvLog)
    /\ IsPrefix(handleLog, EnvsOf(recvLog))

\* two different buffered envelopes and one taken after Start, all handled
C1_Witness ==
    /\ started
    /\ \E i, j, k \in DOMAIN recvLog :
          /\ i < j /\ j < k
          /\ recvLog[i].pre /\ recvLog[j].pre /\ ~recvLog[k].pre
          /\ recvLog[i].env # recvLog[j].env
    /\ Len(handleLog) = Len(recvLog)

\* C2: on the channel to each child, Start comes before every user message
\* the group forwards, and a started group has sent Start to every child it
\* launched.
C2_StartBeforeMessages ==
    /\ \A id \in Ids : \A i \in DOMAIN child_inbox[id] :
          child_inbox[id][i].msg = "Message" =>
             \E j \in 1 .. (i - 1) : child_inbox[id][j].msg = "Start"
    /\ (started /\ pc = "run") => \A id \in launched : Told(id, "Start")

\* a message buffered before Start has been forwarded to two children
C2_Witness ==
    /\ Cardinality(launched) = 2
    /\ \E r \in Range(recvLog) :
          /\ r.pre /\ r.env.msg = "Message"
          /\ \A id \in launched :
                /\ Len(child_inbox[id]) >= 2
                /\ child_inbox[id][1].msg = "Start"
                /\ child_inbox[id][2] = r.env

\* C5: a started group that handles Faulted{id} with id in launched kills all
\* its children (launched is emptied, every handle is cancelled and awaited),
\* tells its parent Faulted, not Stopped, and ends its run-loop.
C5_FaultedKillsAll ==
    handling.msg = "Faulted" =>
       /\ pc \in {"run", "kill", "returned"}
       /\ pc = "run" => handling.arg \notin launched
       /\ pc = "kill" =>
             /\ launched = {}
             /\ \A id \in Range(awaiting) : proc[id] # "running"
             /\ Len(parent_inbox) = resets
       /\ pc = "returned" =>
             /\ launched = {}
             /\ Settled
             /\ Len(parent_inbox) = resets + 1
             /\ Last(parent_inbox) = "Faulted"

\* the fault of one of two children has ended the group
C5_Witness ==
    /\ pc = "returned" /\ handling.msg = "Faulted"
    /\ Cardinality(cohort) = 2
    /\ \E id \in cohort : proc[id] = "cancelled"

\* C6: a started group that handles Stop, or Stopped{id} with id in
\* launched, sends Stop to all its children, tells its parent Stopped only
\* when every launched child's handle has completed, and then ends its
\* run-loop with launched empty.
C6_StopWaitsForChildren ==
    handling.msg \in {"Stop", "Stopped"} =>
       /\ pc \in {"run", "stop", "returned"}
       /\ pc = "run" => (handling.msg = "Stopped" /\ handling.arg \notin launched)
       /\ pc = "stop" =>
             /\ launched = {}
             /\ Range(awaiting) = cohort
             /\ \A id \in cohort : Told(id, "Stop")
             /\ Len(parent_inbox) = resets
       /\ pc = "returned" =>
             /\ launched = {}
             /\ \A id \in cohort : Told(id, "Stop") /\ proc[id] = "finished"
             /\ Len(parent_inbox) = resets + 1
             /\ Last(parent_inbox) = "Stopped"

\* a group of two children has stopped on Stop
C6_Witness ==
    /\ pc = "returned" /\ handling.msg = "Stop"
    /\ Cardinality(cohort) = 2

\* C7: once a group has handled Kill, every child it had launched has been
\* cancelled and awaited, launched is empty, each of them is recorded in
\* killed, the parent has been told Stopped and the run-loop has ended.
C7_KillLeavesNoChild ==
    handling.msg = "Kill" =>
       /\ pc \in {"kill", "returned"}
       /\ launched = {}
       /\ pc = "kill" =>
             /\ Range(awaiting) = cohort
             /\ \A id \in cohort : proc[id] # "running"
             /\ Len(parent_inbox) = resets
       /\ pc = "returned" =>
             /\ \A id \in cohort : Resolved(proc[id])
             /\ KilledIds = cohort
             /\ Len(killed) = Cardinality(cohort)
             /\ Len(parent_inbox) = resets + 1
             /\ Last(parent_inbox) = "Stopped"

\* a group of two children has been killed
C7_Witness ==
    /\ pc = "returned" /\ handling.msg = "Kill"
    /\ Cardinality(cohort) = 2
    /\ \A id \in cohort : proc[id] = "cancelled"

\* C8 as stated: whenever started is true (no restart is ever half done
\* between two steps of the model), launched holds redundancy entries.
C8_Original == started => Cardinality(launched) = redundancy

\* C8, amended: while started is true and the run-loop has not begun to
\* handle a terminating envelope, launched holds redundancy entries; from
\* then on, until reset launches the children again, launched is empty.
C8_LaunchedWhileRunning ==
    /\ (started /\ pc = "run") => Cardinality(launched) = redundancy
    /\ pc \in {"stop", "kill", "returned"} => launched = {}

\* a restarted, started group of two
C8_Witness ==
    /\ started /\ pc = "run" /\ resets > 0
    /\ redundancy = 2 /\ Cardinality(launched) = 2

\* C9: an incarnation of the group tells its parent Stopped or Faulted
\* once, when its run-loop returns: never before, never twice, never after.
C9_OneNotification ==
    Len(parent_inbox) = resets + (IF pc = "returned" THEN 1 ELSE 0)

\* two children have reported, the group has told its parent once
C9_Witness ==
    /\ pc = "returned"
    /\ Len(parent_inbox) = resets + 1
    /\ \E i \in DOMAIN mailbox : mailbox[i].msg \in {"Stopped", "Faulted"}
    /\ handling.msg \in {"Stopped", "Faulted"}

\* C10 as stated: after a restart no child in launched has the id of a child
\* that was killed earlier.
C10_Original == resets > 0 => launched \cap everKilled = {}

\* C10, amended: after a restart a child in launched either has an id that
\* launch_elems newly generated, which no child killed earlier had, or has
\* the id of an entry launch_elems took out of killed, which is then no
\* longer in killed; the ids in launched are redundancy different ones.
C10_FreshOrTakenFromKilled ==
    (resets > 0 /\ pc = "run") =>
       /\ \A id \in launched :
             /\ id \in newIds => id \notin everKilled
             /\ id \notin newIds => (id \in everKilled /\ id \notin KilledIds)
       /\ Cardinality(launched) = redundancy

\* a restarted group whose two children have the ids of killed children
C10_Witness ==
    /\ resets > 0 /\ pc = "run"
    /\ Cardinality(launched) = 2
    /\ launched \subseteq everKilled

\* C11: a reset gives the group a new identifier: id() after the reset
\* differs from id() before it.
C11_ResetChangesId ==
    [][resets' = resets + 1 => Children_id(Self)' # Children_id(Self)]_vars

\* what handle() leaves alone when it ignores an envelope
Ignores(s, env) ==
    LET t == handle(s, env, <<>>)
    IN  /\ t.launched = s.launched
        /\ t.killed = s.killed
        /\ t.started = s.started
        /\ t.pre_start_msgs = s.pre_start_msgs
        /\ t.child_inbox = s.child_inbox
        /\ t.parent_inbox = s.parent_inbox
        /\ t.proc = s.proc
        /\ t.pc = "run"

\* the envelopes Stopped{id} and Faulted{id} with id in handleLog[i], for a
\* child that is not launched
UnknownExit(env) ==
    env.msg \in {"Stopped", "Faulted"} /\ env.arg \notin launched

\* C12: a started group ignores Stopped{id} and Faulted{id} of a child that
\* is not in launched: handle() changes neither launched, killed, started
\* nor pre_start_msgs, sends nothing to the children or the parent, and
\* returns Ok(()), so that the run-loop goes on.
C12_UnknownExitIgnored ==
    /\ pc = "run" =>
          \A id \in Ids \ launched : \A m \in {"Stopped", "Faulted"} :
             Ignores([Self EXCEPT !.started = TRUE], Env(m, id))
    /\ (pc = "run" /\ handleLog # <<>> /\ UnknownExit(Last(handleLog))) =>
          /\ started
          /\ Cardinality(launched) = redundancy
          /\ Len(parent_inbox) = resets

\* a restarted group has handled the Faulted of a child of before the
\* restart, and runs on with its two children
C12_Witness ==
    /\ pc = "run" /\ started /\ resets > 0
    /\ handleLog # <<>> /\ UnknownExit(Last(handleLog))
    /\ Last(handleLog).msg = "Faulted"
    /\ Cardinality(launched) = 2

\* C13: when reset is over, started is false, pre_start_msgs is empty,
\* launched holds redundancy children that reset has just launched (each
\* running, nothing sent to it yet), and no child launched before the reset
\* is still running.
C13_ResetRelaunches ==
    [][resets' = resets + 1 =>
          /\ started' = FALSE
          /\ pre_start_msgs' = <<>>
          /\ Cardinality(launched') = redundancy'
          /\ launched' = cohort'
          /\ bcast_children' = launched'
          /\ \A id \in launched' :
                proc'[id] = "running" /\ child_inbox'[id] = <<>>
          /\ \A id \in Ids \ launched' :
                proc'[id] \in {"none", "finished", "cancelled"}
          /\ \A id \in cohort \ launched' : Resolved(proc'[id])]_vars

\* a group of two that was started and killed has been reset
C13_Witness ==
    /\ resets > 0 /\ pc = "run" /\ ~started
    /\ handleLog = <<>> /\ recvLog = <<>>
    /\ Cardinality(launched) = 2
    /\ everKilled # {}

\* C14: with_redundancy(0) sets redundancy to 1 and with_redundancy(n) sets
\* it to n for n >= 1; redundancy is therefore at least 1 and launch_elems
\* launches at least one child.
C14_RedundancyAtLeastOne ==
    /\ \A n \in redundancy_arg : redundancy = (IF n = 0 THEN 1 ELSE n)
    /\ redundancy >= 1
    /\ pc # "new" => (cohort # {} /\ Cardinality(cohort) = redundancy)

\* a group configured with with_redundancy(0) has launched one child
C14_Witness ==
    /\ redundancy_arg = {0} /\ pc = "run"
    /\ redundancy = 1 /\ Cardinality(launched) = 1


(***************************************************************************)
(* Properties of the pool manager, checked under SpecPool.                 *)
(***************************************************************************)
\* C3: a tick of the pool manager that takes an arrival count of 0 does not
\* call create_blocking_thread, whatever the frequency window holds.
C3_NoArrivalsNoSpawn == current_frequency = 0 => scale = 0

\* C4: a tick that takes a non-zero arrival count and finds curr_ema and
\* prev_ema less than the machine epsilon apart calls create_blocking_thread
\* as many times as the low watermark configured through
\* BASTION_BLOCKING_THREADS.
C4_HogSpawnsLowWatermark ==
    (current_frequency # 0 /\ ema_cmp = "eq") => scale = LOW_WATERMARK

RECURSIVE ScaleFloorOf(_, _, _, _)
\* floor(w * (curr_ema - prev_ema)) for a low watermark of w: the largest k
\* with k * (N + 1)^N + 2 * w * prev <= 2 * w * curr
ScaleFloorOf(w, prev, curr, k) ==
    LET lhs == BigAdd(BigMulSmall(EmaUnit, k + 1), BigMulSmall(prev, 2 * w))
    IN  IF BigLeq(lhs, BigMulSmall(curr, 2 * w))
        THEN ScaleFloorOf(w, prev, curr, k + 1)
        ELSE k

\* C15: a tick that finds curr_ema > prev_ema calls create_blocking_thread
\* min(num_cpus, floor(LOW_WATERMARK * D + LOW_WATERMARK)) times, D being
\* curr_ema - prev_ema and LOW_WATERMARK the low watermark configured
\* through BASTION_BLOCKING_THREADS; never more than num_cpus times.
C15_ScaleByConfigured ==
    ema_cmp = "gt" =>
       /\ scale = Min(num_cpus,
                      ScaleFloorOf(LOW_WATERMARK, prev_ema_frequency,
                                   curr_ema_frequency, 0) + LOW_WATERMARK)
       /\ scale <= num_cpus

\* a step of the model that is a tick of the pool manager
TickStep ==
    /\ mgr = "sleep"
    /\ UNCHANGED <<bursts, calls, caller, static_recv, dynamic_recv, starting,
                   dynamic>>

\* C16: every arrival is counted in one tick and no more: what the ticks
\* have taken plus what FREQUENCY holds is the number of increments done by
\* schedule, and FREQUENCY goes down only when a tick takes all of it.
C16_EveryArrivalCountedOnce ==
    /\ [](taken + FREQUENCY = calls)
    /\ [][FREQUENCY' < FREQUENCY =>
             /\ TickStep
             /\ FREQUENCY' = 0
             /\ current_frequency' = FREQUENCY
             /\ taken' = taken + FREQUENCY]_vars

\* a tick has taken arrivals, more have come since, a caller is blocked
C16_Witness ==
    /\ taken > 0 /\ FREQUENCY > 0
    /\ \E c \in Callers : caller[c] = "blocked"

\* C17: after a tick the window holds between 1 and FREQUENCY_QUEUE_SIZE
\* samples; the sample of the tick is appended, and when the window held
\* FREQUENCY_QUEUE_SIZE samples the oldest one is taken out and the others
\* keep their order.
C17_WindowBounded ==
    /\ [](Len(freq_queue) <= FREQUENCY_QUEUE_SIZE)
    /\ [][TickStep =>
             LET f == current_frequency' \div MANAGER_POLL_INTERVAL
             IN  /\ Len(freq_queue') >= 1
                 /\ Len(freq_queue') <= FREQUENCY_QUEUE_SIZE
                 /\ freq_queue' =
                       (IF Len(freq_queue) = FREQUENCY_QUEUE_SIZE
                        THEN Append(Tail(freq_queue), f)
                        ELSE IF freq_queue = <<>>
                        THEN <<0, f>>
                        ELSE Append(freq_queue, f))]_vars

\* a full window in which a non-zero sample has moved towards the front
C17_Witness ==
    /\ Len(freq_queue) = FREQUENCY_QUEUE_SIZE
    /\ \E i \in 1 .. 5 : freq_queue[i] # 0

\* the callers that are inside schedule()
Pending == {c \in Callers : caller[c] # "idle"}

\* C18: a call of schedule counts its arrival, by exactly 1, before it
\* tries to hand the task over; try_send succeeds only when a worker is in
\* recv, otherwise the call blocks until a worker receives the task; the
\* arrival stays counted while the call is blocked, taken or not.
C18_CountedBeforeHandoff ==
    /\ [](taken + FREQUENCY = delivered + Cardinality(Pending))
    /\ [][\A c \in Callers :
             /\ (caller[c] = "idle" /\ caller'[c] # "idle") =>
                   /\ caller'[c] = "counted"
                   /\ FREQUENCY' = FREQUENCY + 1
                   /\ delivered' = delivered
             /\ (caller[c] = "counted" /\ caller'[c] = "blocked") =>
                   /\ Receivers = 0
                   /\ delivered' = delivered
             /\ (caller[c] # "idle" /\ caller'[c] = "idle") =>
                   /\ Receivers > 0
                   /\ Receivers' = Receivers - 1
                   /\ delivered' = delivered + 1
             /\ (caller[c] = "blocked" /\ caller'[c] # "blocked") =>
                   caller'[c] = "idle"]_vars

\* a call is blocked in send after a tick has taken its arrival, while an
\* earlier task has been received
C18_Witness ==
    /\ \E c \in Callers : caller[c] = "blocked"
    /\ FREQUENCY = 0 /\ taken > 0 /\ delivered > 0

\* a step of the model that is the limit check of create_blocking_thread
CheckStep == mgr = "check" /\ (mgr' # mgr \/ todo' # todo)

\* C19: create_blocking_thread called with POOL_SIZE >= MAX_THREADS
\* spawns no thread, leaves POOL_SIZE as it is and sets MAX_THREADS to
\* 10000.
C19_DeclineResetsLimit ==
    [][(CheckStep /\ POOL_SIZE >= MAX_THREADS) =>
          /\ MAX_THREADS' = INITIAL_MAX_THREADS
          /\ POOL_SIZE' = POOL_SIZE
          /\ starting' = starting /\ dynamic' = dynamic
          /\ mgr' # "spawn"
          /\ todo' = todo - 1]_vars

\* a call has been declined after a would-block failure lowered the limit
C19_Witness ==
    /\ limit # {}
    /\ MAX_THREADS = INITIAL_MAX_THREADS
    /\ \A l \in limit : POOL_SIZE >= l

\* C20: once a spawn has failed with would-block and MAX_THREADS has been
\* set to POOL_SIZE - 1, every later call of create_blocking_thread
\* declines for as long as POOL_SIZE has not fallen below that limit; the
\* failure goes no further and the manager keeps running.
C20_SelfLimiting ==
    /\ [](mgr # "panicked")
    /\ [][(CheckStep /\ mgr' = "spawn") =>
             \A l \in limit : POOL_SIZE < l]_vars

\* C21: POOL_SIZE is LOW_WATERMARK plus the number of dynamic workers that
\* have started and not yet exited: a dynamic worker adds 1 when it starts
\* and takes 1 off when it exits, and POOL_SIZE is never below
\* LOW_WATERMARK.
C21_PoolSizeCountsWorkers ==
    /\ [](POOL_SIZE = LOW_WATERMARK + dynamic)
    /\ [](POOL_SIZE >= LOW_WATERMARK)
    /\ [][/\ dynamic' > dynamic =>
                (dynamic' = dynamic + 1 /\ POOL_SIZE' = POOL_SIZE + 1)
          /\ dynamic' < dynamic =>
                (dynamic' = dynamic - 1 /\ POOL_SIZE' = POOL_SIZE - 1)
          /\ dynamic' = dynamic => POOL_SIZE' = POOL_SIZE]_vars

\* a dynamic worker is running a task next to three static workers
C21_Witness ==
    /\ LOW_WATERMARK = 3 /\ dynamic = 1 /\ dynamic_recv = 0
    /\ POOL_SIZE = 4

\* C22 as stated: POOL_SIZE is at most MAX_THREADS in every state.
C22_Original == POOL_SIZE <= MAX_THREADS

\* C22, amended: create_blocking_thread goes on to spawn only when the
\* POOL_SIZE it reads is below MAX_THREADS, and a thread is spawned only
\* after that check; MAX_THREADS changes only when a call is declined (to
\* 10000) or when a spawn fails with would-block (to POOL_SIZE - 1, which
\* is below POOL_SIZE).
C22_SpawnOnlyBelowLimit ==
    /\ [][(CheckStep /\ mgr' = "spawn") => POOL_SIZE < MAX_THREADS]_vars
    /\ [][starting' > starting => mgr = "spawn"]_vars
    /\ [][MAX_THREADS' # MAX_THREADS =>
             \/ /\ CheckStep /\ POOL_SIZE >= MAX_THREADS
                /\ MAX_THREADS' = INITIAL_MAX_THREADS
             \/ /\ mgr = "spawn"
                /\ MAX_THREADS' = POOL_SIZE - 1]_vars

\* a would-block failure has left MAX_THREADS below the POOL_SIZE of a
\* pool with a dynamic worker
C22_Witness ==
    /\ dynamic > 0
    /\ POOL_SIZE > MAX_THREADS

\* C24: no thread holds two of the mutexes FREQ_QUEUE, POOL_SIZE and
\* ROUND_ROBIN_PIN at the same time.
C24_OneMutexAtATime == most_held <= 1

\* the window of n samples that holds a 1 at index i (1 is the front) and
\* 0 elsewhere: calculate_ema of it is the weight of index i
UnitWindow(n, i) == [k \in 1 .. n |-> IF k = i THEN 1 ELSE 0]

\* C25: calculate_ema gives the newest sample of the window the largest
\* weight and an older sample never more than a newer one (the newest
\* sample is at the back of the window); prev_ema and curr_ema are both
\* calculate_ema of a window.
C25_NewestWeighsMost ==
    /\ curr_ema_frequency = calculate_ema(freq_queue)
    /\ \A i, j \in DOMAIN freq_queue :
          i < j => BigLeq(calculate_ema(UnitWindow(Len(freq_queue), i)),
                          calculate_ema(UnitWindow(Len(freq_queue), j)))

TimesQueued(payload) ==
    Cardinality({i \in DOMAIN sys_log : sys_log[i].payload = payload})

\* C26: when the send to the system fails, broadcast, supervisor and
\* children each return an error that carries the payload of the call (the
\* message, the supervisor, the children group); when it succeeds the
\* payload has been queued exactly once.
C26_ErrorCarriesPayload ==
    api_result.op \in {"broadcast", "supervisor", "children"} =>
        IF api_result.ok
        THEN TimesQueued(api_result.payload) = 1
        ELSE /\ api_result.carried = {api_result.payload}
             /\ TimesQueued(api_result.payload) = 0

\* C27: block_until_stopped returns only when it has read the handle as
\* None; kill leaves the handle None, and a handle that is None stays None;
\* a call that polls while the handle is None returns.
C27_BlockReturnsWhenCleared ==
    /\ [][(blk = "polling" /\ blk' = "returned") => sys_handle = "None"]_vars
    /\ [][(api_calls' > api_calls /\ api_result'.op = "kill")
             => sys_handle' = "None"]_vars
    /\ [][sys_handle = "None" => sys_handle' = "None"]_vars
    /\ ((blk = "polling" /\ sys_handle = "None") ~> (blk = "returned"))

\* the second call of block_until_stopped has returned after a kill that
\* cancelled the system's task
C27_Witness ==
    /\ sys_task = "cancelled" /\ sys_handle = "None"
    /\ blocks = 2 /\ blk = "returned"

(***************************************************************************)
(* Properties of the supervisor.                                           *)
(***************************************************************************)
\* the step in which the supervisor takes a Faulted and starts a recovery
RecoveryBegins == sup_pc = "run" /\ sup_pc' = "recover"
\* the step in which the targets of a recovery are reset and launched
RecoveryEnds == sup_pc = "recover" /\ sup_pc' = "run"

\* C28: under RestForOne a recovery is for the position in order of the node
\* that reported Faulted; it resets once that node and every node after it
\* in order, and resets no node before it in order.
C28_RestForOneRestartsTheRest ==
    /\ [][RecoveryBegins =>
             /\ Head(sup_inbox).msg = "Faulted"
             /\ order[recovering'] = Head(sup_inbox).id]_vars
    /\ [][(RecoveryEnds /\ strategy = "RestForOne") =>
             \A i \in DOMAIN order :
                nodes'[order[i]].restarts =
                   nodes[order[i]].restarts + (IF i >= recovering THEN 1 ELSE 0)]_vars

\* under RestForOne the second node in order faulted: the second and the
\* third were restarted, the first was not
C28_Witness ==
    /\ strategy = "RestForOne" /\ sup_pc = "run" /\ Len(order) = 3
    /\ nodes[order[1]].restarts = 0 /\ nodes[order[1]].state = "running"
    /\ nodes[order[2]].restarts = 1
    /\ nodes[order[3]].restarts = 1

\* C29: under OneForAll the recovery of one Faulted restarts every node of
\* the supervisor exactly once, and each restarted node has a BastionId it
\* did not have before.
C29_AllRestartedWithFreshIds ==
    [][(RecoveryEnds /\ strategy = "OneForAll") =>
          \A n \in Range(order) :
             /\ nodes'[n].restarts = nodes[n].restarts + 1
             /\ nodes'[n].id # nodes[n].id]_vars

(***************************************************************************)
(* Properties of launch_elems.                                             *)
(***************************************************************************)
\* the step in which launch_elems runs: in launch, or in reset
LaunchStep == pc \in {"new", "returned"} /\ pc' = "run"

\* the entries launch_elems pops: the last redundancy entries of killed
Popped ==
    {killed[i] : i \in (Len(killed) - Min(Len(killed), redundancy) + 1) .. Len(killed)}

\* C30: launch_elems launches redundancy children; each entry it pops from
\* killed gives one child, with the entry's id, and with the entry's channel
\* when it has one and a new channel otherwise; the other children have new
\* BastionIds and new channels, and there are such children only when
\* killed has run empty; what is popped is no longer in killed.
C30_LaunchReusesKilled ==
    [][LaunchStep =>
          /\ Cardinality(cohort') = redundancy
          /\ launched' = cohort'
          /\ killed' = SubSeq(killed, 1, Len(killed) - Min(Len(killed), redundancy))
          /\ cohort' \ newIds' = {e[1] : e \in Popped}
          /\ Cardinality(Popped) = Min(Len(killed), redundancy)
          /\ \A e \in Popped :
                chan_of'[e[1]] = (IF e[2] = "Some" THEN "kept" ELSE "new")
          /\ \A id \in newIds' :
                /\ chan_of'[id] = "new"
                /\ id >= nextId /\ id < nextId'
                /\ id \notin everKilled
          /\ newIds' # {} => killed' = <<>>
          /\ Cardinality(newIds') = redundancy - Min(Len(killed), redundancy)]_vars

\* a restarted group of two children, both with the ids of killed children:
\* one was launched with the channel that was recovered, one with a new one
C30_Witness ==
    /\ resets > 0 /\ pc = "run"
    /\ \E a, b \in launched :
          /\ a # b /\ {a, b} \subseteq everKilled
          /\ chan_of[a] = "kept" /\ chan_of[b] = "new"

(***************************************************************************)
(* Properties of the run-loop under repeated and early envelopes.          *)
(***************************************************************************)
\* how often the group sent Start to the child since it was launched
StartsSent(id) ==
    Cardinality({i \in DOMAIN child_inbox[id] : child_inbox[id][i].msg = "Start"})

\* C31: a child is sent Start by its group at most once since its launch,
\* and exactly once when the group is started, whatever the group receives.
C31_StartSentOnce ==
    \A id \in Ids :
       /\ StartsSent(id) <= 1
       /\ (started /\ id \in launched) => StartsSent(id) = 1

\* C32: the manager does not hold the mutex of POOL_SIZE when it spawns a
\* thread: the guard of the limit check is gone when the check is over, and
\* the would-block handler locks only after the spawn has failed.
C32_SpawnWithoutPoolSizeGuard ==
    mgr = "spawn" => "POOL_SIZE" \notin mgr_held

\* the manager, with the window still locked, is about to spawn a thread
\* while an earlier one has not yet counted itself
C32_Witness ==
    /\ mgr = "spawn" /\ mgr_held = {"FREQ_QUEUE"}
    /\ starting > 0

\* C33: a restarted group does not stop or kill its children, and so tells
\* its parent nothing, on a Stopped{id} or Faulted{id} that a child of
\* before the reset emitted: when it does so on such an envelope, the child
\* with that id that is launched now has itself finished and emitted it.
C33_StaleExitIgnored ==
    [][(/\ resets > 0
        /\ pc = "run" /\ pc' \in {"stop", "kill"}
        /\ handling'.msg \in {"Stopped", "Faulted"})
          => proc[handling'.arg] = "finished"]_vars

\* the step in which the run-loop takes an envelope other than Start
TakesOther ==
    /\ pc = "run" /\ mailbox # <<>> /\ mailbox' = Tail(mailbox)
    /\ Head(mailbox).msg # "Start"

\* C34: a group that is not started only appends what it takes, Stop, Kill,
\* Stopped{id} and Faulted{id} included, to pre_start_msgs: no child is
\* stopped or killed, nothing is sent to the children or the parent, and the
\* run-loop goes on; it ends only in a step that takes Start.
C34_UnstartedOnlyBuffers ==
    /\ [][(TakesOther /\ ~started) =>
             /\ pre_start_msgs' = Append(pre_start_msgs, Head(mailbox))
             /\ launched' = launched /\ killed' = killed
             /\ proc' = proc /\ child_inbox' = child_inbox
             /\ parent_inbox' = parent_inbox
             /\ ~started' /\ pc' = "run"]_vars
    /\ [][(~started /\ pc = "run" /\ pc' # "run") =>
             (mailbox # <<>> /\ Head(mailbox).msg = "Start")]_vars

\* a restarted group that is not started has buffered a Kill and the
\* Stopped or Faulted of a child, and its children run
C34_Witness ==
    /\ pc = "run" /\ ~started /\ launched # {}
    /\ \A id \in launched : proc[id] = "running"
    /\ \E i, j \in DOMAIN pre_start_msgs :
          /\ pre_start_msgs[i].msg = "Kill"
          /\ pre_start_msgs[j].msg \in {"Stopped", "Faulted"}

\* C35: handle() is never called with Start: the run-loop takes every Start
\* in its first arm, started or not, and Start is never put in
\* pre_start_msgs; the unreachable!() of handle() is not reached.
C35_HandleNeverGetsStart ==
    /\ pc # "unreachable"
    /\ \A i \in DOMAIN pre_start_msgs : pre_start_msgs[i].msg # "Start"
    /\ \A i \in DOMAIN handleLog : handleLog[i].msg # "Start"
    /\ handling.msg # "Start"

\* a group took a message, then Start, then Start again: the message was
\* replayed to handle() and the loop runs on
C35_Witness ==
    /\ pc = "run" /\ started /\ handleLog # <<>>
    /\ \E id \in launched : StartsSent(id) = 2

(***************************************************************************)
(* Properties of the pool under refused spawns and blocked callers.        *)
(***************************************************************************)
\* C36: POOL_SIZE - 1 in the would-block handler does not underflow: when
\* the manager is at a spawn, which the system may refuse, POOL_SIZE is at
\* least 1, for every value of BASTION_BLOCKING_THREADS and however the
\* workers' exits fall; the manager never panics in the handler.
C36_RefusedSpawnNoUnderflow ==
    /\ mgr = "spawn" => POOL_SIZE >= 1
    /\ mgr # "panicked"

\* C37: with fair scheduling and spawns that succeed, a call of schedule
\* that is blocked in send, all workers being occupied by tasks that never
\* return, does not stay blocked: the manager spawns a worker that takes
\* its task.  The calls of a run are finitely many, so that from some point
\* on no call is blocked.
C37_BlockedCallsReturn ==
    <>[](\A c \in HogCallers : caller[c] # "blocked")

=============================================================================
